---- MODULE Spec2Model ----
(***************************************************************************)
(* State-machine model of templatr-setup: plan building, the per-runtime   *)
(* installers, archive extraction, the installation ledger with undo and   *)
(* uninstall, and the WebSocket server's installation goroutines.          *)
(*                                                                         *)
(* Strings are sequences of tokens.  A token is an atomic piece of text    *)
(* (a digit, a separator, a directory name), so that strings.HasPrefix and *)
(* strings.Contains are prefix and infix tests on sequences.               *)
(***************************************************************************)
EXTENDS Integers, Sequences, FiniteSets, TLC

\* ------------------------------------------------------------------------
\* Bounds of the model
\* ------------------------------------------------------------------------
\* runtime keys in a manifest handed to BuildPlan
MaxManifestKeys == 2
\* runtimes in a plan handed to ExecutePlan
MaxPlanLen == 2
\* setup commands run before an uninstall
MaxRuns == 2
\* completed installations in a ledger handed to UndoInstallation
MaxLedger == 2
\* entries in an archive
MaxEntries == 2
\* confirm messages the server receives
MaxConfirms == 2
\* events broadcast in answer to load_manifest, cancel and configure messages
MaxEvents == 3
\* releases in the index a version resolver fetches
MaxReleases == 2
\* calls of the environment mutator on one host
MaxEnvCalls == 3
\* global packages of a manifest, and post-setup commands of a manifest
MaxPkgCmds == 1
\* tools of the catalogue found on the search path of a scanned host
MaxFound == 2
\* fields of the configure form, and writeConfigCmd commands in flight
MaxFields == 2
\* WebSocket connections the server accepts
MaxClients == 2
\* capacity of a client's send channel (256 in NewHub's callers)
SendCap == 1
\* capacity of the hub's broadcast channel (256 in NewHub)
BroadcastCap == 1
\* calls of Hub.Broadcast
MaxBroadcasts == 2

\* ------------------------------------------------------------------------
\* State
\* ------------------------------------------------------------------------
VARIABLES
    manifestRuntimes,  \* the manifest's [runtimes] table: key -> version requirement
    detected,          \* what detect.ScanRuntimes found: name -> RuntimeInfo
    plan,              \* the plan BuildPlan returned
    planPc             \* "loaded" before BuildPlan, "built" after

planVars == << manifestRuntimes, detected, plan, planPc >>

VARIABLES
    inst,       \* the Install call in progress: [name, version, targetDir]
    ipc,        \* its position
    tmpFile,    \* digest of the downloaded temp file, << >> when there is none
    expected,   \* the checksum taken from the release metadata, << >> when none
    trace,      \* the steps performed so far for the current runtime, with outcome
    disk        \* the installation directories that exist on disk

installVars == << inst, ipc, tmpFile, expected, trace, disk >>

VARIABLES
    pc,          \* position of the running command, "idle" between commands
    rplan,       \* plan.Runtimes of the running setup
    idx,         \* index of ExecutePlan's loop in rplan
    st,          \* the command's in-memory ledger
    results,     \* ExecutePlan's results so far
    execErr,     \* whether ExecutePlan returned an error
    ledgerFile,  \* ~/.templatr/state.json
    rc,          \* content of the shell configuration files
    shellFiles,  \* what shellConfigFiles() returns on this host
    runs,        \* setup commands started so far
    snapshot,    \* UndoAll's copy of the installations
    ui,          \* index of UndoAll's loop in snapshot
    undone,      \* UndoAll's results
    undoErrs,    \* UndoAll's errors: the (runtime, version) each one names
    lastUndo     \* the latest UndoInstallation call and what it returned

execVars == << pc, rplan, idx, st, results, execErr, ledgerFile, rc, shellFiles,
               runs, snapshot, ui, undone, undoErrs, lastUndo >>

undoVars == << snapshot, ui, undone, undoErrs, lastUndo >>

VARIABLES
    archive,   \* the entries of the archive, in order
    format,    \* "tar.gz" or "zip"
    ei,        \* index of the next entry
    xpc,       \* "run", "ok" (returned nil), "err" (returned an error)
    xfs        \* what exists at and around destDir: nodes (path, kind, to)

extractVars == << archive, format, ei, xpc, xfs >>

VARIABLES
    loadedManifest,  \* s.loadedManifest: [loaded, keys]
    workers,         \* the runInstallation goroutines started so far
    broadcasts       \* the plan and overall-complete events sent to the clients

serverVars == << loadedManifest, workers, broadcasts >>

VARIABLES
    goos,      \* runtime.GOOS of the host: "linux" or "windows"
    userEnv,   \* the user-level environment of a Windows host: [Path, Vars]
    envCall    \* the latest call of the environment mutator and what it returned

hostVars == << goos, userEnv, envCall >>

VARIABLES
    opts,      \* the setup command's flags and whether stdin is a terminal:
               \* [dryRun, yes, tty]
    cmdsRun,   \* the package and post-setup commands the run executed, with outcome
    out        \* what the command has printed and what the user has typed, in
               \* order; every entry is a string

cmdVars == << opts, cmdsRun, out >>

VARIABLES
    rv         \* one ResolveVersion call: [pc, name, fetched, releases,
               \* requirement, ret, err]

resolveVars == << rv >>

VARIABLES
    probes,    \* the scanned host: for each catalogue entry what LookPath and the
               \* version command do
    scan       \* one ScanRuntimes call: [pc, i, results]

scanVars == << probes, scan >>

VARIABLES
    tui        \* the terminal interface's Model, the commands it has in flight and
               \* the phases it went through

tuiVars == << tui >>

VARIABLES
    hub        \* the WebSocket hub: its clients map, its channels, the position of
               \* Hub.Run, and each connection's handler and writer goroutine

hubVars == << hub >>

vars == << planVars, installVars, execVars, extractVars, serverVars, hostVars, cmdVars,
           resolveVars, scanVars, tuiVars, hubVars >>

\* what the actions of one component leave alone
PlanFrame ==
    << installVars, execVars, extractVars, serverVars, hostVars, cmdVars, resolveVars, scanVars,
       tuiVars, hubVars >>

InstallFrame ==
    << planVars, execVars, extractVars, serverVars, hostVars, cmdVars, resolveVars, scanVars,
       tuiVars, hubVars >>

ExecFrame ==
    << planVars, extractVars, serverVars, hostVars, cmdVars, resolveVars, scanVars, tuiVars, hubVars >>

EnvFrame ==
    << planVars, extractVars, serverVars, cmdVars, resolveVars, scanVars, tuiVars, hubVars >>

CmdFrame == << planVars, extractVars, serverVars, hostVars, resolveVars, scanVars, tuiVars, hubVars >>

ResolveFrame ==
    << planVars, installVars, execVars, extractVars, serverVars, hostVars, cmdVars,
       scanVars, tuiVars, hubVars >>

ExtractFrame ==
    << planVars, installVars, execVars, serverVars, hostVars, cmdVars, resolveVars, scanVars,
       tuiVars, hubVars >>

ServerFrame ==
    << planVars, installVars, execVars, extractVars, hostVars, cmdVars, resolveVars, scanVars,
       tuiVars, hubVars >>

\* ------------------------------------------------------------------------
\* String helpers (Go's strings package on token sequences)
\* ------------------------------------------------------------------------
HasPrefix(s, p) == Len(p) <= Len(s) /\ SubSeq(s, 1, Len(p)) = p

Contains(s, sub) ==
    \E i \in 0..(Len(s) - Len(sub)) : SubSeq(s, i + 1, i + Len(sub)) = sub

Range(s) == { s[i] : i \in DOMAIN s }

\* the first element of s as a sequence of length one, << >> when s is empty
First(s) == IF s = << >> THEN << >> ELSE << s[1] >>

Perms(S) == { p \in [1..Cardinality(S) -> S] : Range(p) = S }

\* ------------------------------------------------------------------------
\* Version Matcher: versionSatisfies and the semver library it calls
\* ------------------------------------------------------------------------
Digits == {"0", "1", "2"}

DigitVal(d) == CASE d = "0" -> 0 [] d = "1" -> 1 [] d = "2" -> 2

RECURSIVE NumVal(_)
NumVal(ds) ==
    IF Len(ds) = 0 THEN 0
    ELSE 10 * NumVal(SubSeq(ds, 1, Len(ds) - 1)) + DigitVal(ds[Len(ds)])

\* strings.Split(s, "."): the dot-separated parts of a token sequence
RECURSIVE SplitDots(_)
SplitDots(s) ==
    IF \A i \in DOMAIN s : s[i] # "."
    THEN << s >>
    ELSE LET k == CHOOSE i \in DOMAIN s : s[i] = "." /\ \A j \in 1..(i - 1) : s[j] # "."
         IN  << SubSeq(s, 1, k - 1) >> \o SplitDots(SubSeq(s, k + 1, Len(s)))

IsNumber(part) == Len(part) > 0 /\ \A i \in DOMAIN part : part[i] \in Digits

\* semver.NewVersion: optional "v", one to three numeric parts, missing parts are 0.
\* parts counts the parts that were written (a constraint "2" is a wildcard on the rest).
NewVersion(str) ==
    LET body  == IF Len(str) > 0 /\ str[1] = "v" THEN Tail(str) ELSE str
        parts == SplitDots(body)
        ok    == Len(parts) \in 1..3 /\ \A i \in DOMAIN parts : IsNumber(parts[i])
        num(i) == IF i <= Len(parts) THEN NumVal(parts[i]) ELSE 0
    IN  IF ok
        THEN [ok |-> TRUE, v |-> << num(1), num(2), num(3) >>, parts |-> Len(parts)]
        ELSE [ok |-> FALSE, v |-> << 0, 0, 0 >>, parts |-> 0]

VLess(a, b) ==
    \/ a[1] < b[1]
    \/ a[1] = b[1] /\ a[2] < b[2]
    \/ a[1] = b[1] /\ a[2] = b[2] /\ a[3] < b[3]

VLeq(a, b) == a = b \/ VLess(a, b)

Operators == {">=", "^", "~", "="}

\* semver.NewConstraint: an optional operator followed by a (partial) version
NewConstraint(str) ==
    LET hasOp == Len(str) > 0 /\ str[1] \in Operators
        op    == IF hasOp THEN str[1] ELSE "="
        ver   == NewVersion(IF hasOp THEN Tail(str) ELSE str)
    IN  [ok |-> ver.ok, op |-> op, v |-> ver.v, parts |-> ver.parts]

\* Constraints.Check: range containment
Check(c, v) ==
    LET lo == c.v
        nextMajor == << lo[1] + 1, 0, 0 >>
        nextMinor == << lo[1], lo[2] + 1, 0 >>
        nextPatch == << lo[1], lo[2], lo[3] + 1 >>
    IN  CASE c.op = ">=" -> VLeq(lo, v)
          [] c.op = "^"  ->
                /\ VLeq(lo, v)
                /\ VLess(v, IF lo[1] > 0 \/ c.parts = 1 THEN nextMajor
                            ELSE IF lo[2] > 0 \/ c.parts = 2 THEN nextMinor
                            ELSE nextPatch)
          [] c.op = "~"  ->
                /\ VLeq(lo, v)
                /\ VLess(v, IF c.parts = 1 THEN nextMajor ELSE nextMinor)
          [] c.op = "="  ->
                /\ VLeq(lo, v)
                /\ VLess(v, IF c.parts = 1 THEN nextMajor
                            ELSE IF c.parts = 2 THEN nextMinor
                            ELSE nextPatch)

Latest == << "latest" >>
VersionUnknown == << "(version unknown)" >>

\* strings.TrimSpace
RECURSIVE TrimSpace(_)
TrimSpace(s) ==
    IF Len(s) > 0 /\ s[1] \in {" ", "\n"} THEN TrimSpace(Tail(s))
    ELSE IF Len(s) > 0 /\ s[Len(s)] \in {" ", "\n"}
    THEN TrimSpace(SubSeq(s, 1, Len(s) - 1))
    ELSE s

\* A matcher that parses the installed version before it looks at the requirement
versionSatisfiesParseFirst(installedRaw, required) ==
    LET installed == TrimSpace(installedRaw) IN
    IF Contains(installed, VersionUnknown) THEN [sat |-> FALSE, err |-> TRUE]
    ELSE LET v == NewVersion(installed)
             c == NewConstraint(required)
         IN  IF ~v.ok THEN [sat |-> FALSE, err |-> TRUE]
             ELSE IF required = Latest THEN [sat |-> TRUE, err |-> FALSE]
             ELSE IF ~c.ok THEN [sat |-> FALSE, err |-> TRUE]
             ELSE [sat |-> Check(c, v.v), err |-> FALSE]

\* versionSatisfies(installed, required) -> (bool, error)
versionSatisfies(installedRaw, required) ==
    IF required = Latest THEN [sat |-> TRUE, err |-> FALSE]
    ELSE LET installed == TrimSpace(installedRaw) IN
         IF Contains(installed, VersionUnknown) THEN [sat |-> FALSE, err |-> TRUE]
    ELSE LET v == NewVersion(installed)
             c == NewConstraint(required)
         IN  IF ~v.ok THEN [sat |-> FALSE, err |-> TRUE]
             ELSE IF ~c.ok THEN [sat |-> FALSE, err |-> TRUE]
             ELSE [sat |-> Check(c, v.v), err |-> FALSE]

\* ------------------------------------------------------------------------
\* Plan Builder: BuildPlan over a manifest and a detection snapshot
\* ------------------------------------------------------------------------
ActionSkip    == "skip"
ActionInstall == "install"
ActionUpgrade == "upgrade"

\* runtimeDetectNames / runtimeDisplayNames; unknown keys fall back to the raw key
KnownRuntimes ==
    {"node", "python", "flutter", "java", "go", "rust", "ruby", "php", "dotnet"}

runtimeDetectNames(name) ==
    CASE name = "node"    -> "Node.js"
      [] name = "python"  -> "Python"
      [] name = "flutter" -> "Flutter"
      [] name = "java"    -> "Java"
      [] name = "go"      -> "Go"
      [] name = "rust"    -> "Rust"
      [] name = "ruby"    -> "Ruby"
      [] name = "php"     -> "PHP"
      [] name = "dotnet"  -> ".NET"
      [] OTHER            -> name

runtimeDisplayNames(name) == runtimeDetectNames(name)

\* A plan builder that treats a version it cannot compare as satisfied
PlanEntrySkipOnError(name, required, det) ==
    LET detectName == runtimeDetectNames(name)
        found      == detectName \in DOMAIN det
        base == [Name |-> name, DisplayName |-> runtimeDisplayNames(name),
                 RequiredVersion |-> required,
                 InstalledVersion |-> << >>, InstalledPath |-> << >>,
                 Action |-> ActionInstall]
    IN  IF found /\ det[detectName].Installed
        THEN LET r == versionSatisfies(det[detectName].Version, required)
             IN  [base EXCEPT !.InstalledVersion = det[detectName].Version,
                              !.InstalledPath = det[detectName].Path,
                              !.Action = IF r.err THEN ActionSkip
                                         ELSE IF r.sat THEN ActionSkip
                                         ELSE ActionUpgrade]
        ELSE base

\* One RuntimePlan of BuildPlan's loop body
PlanEntry(name, required, det) ==
    LET detectName == runtimeDetectNames(name)
        found      == detectName \in DOMAIN det
        base == [Name |-> name, DisplayName |-> runtimeDisplayNames(name),
                 RequiredVersion |-> required,
                 InstalledVersion |-> << >>, InstalledPath |-> << >>,
                 Action |-> ActionInstall]
    IN  IF found /\ det[detectName].Installed
        THEN LET r == versionSatisfies(det[detectName].Version, required)
             IN  [base EXCEPT !.InstalledVersion = det[detectName].Version,
                              !.InstalledPath = det[detectName].Path,
                              !.Action = IF r.err THEN ActionUpgrade
                                         ELSE IF r.sat THEN ActionSkip
                                         ELSE ActionUpgrade]
        ELSE base

\* BuildPlan ranges over the manifest's runtime map; Go leaves the iteration
\* order of a map unspecified, so order is any enumeration of the keys.
BuildPlan(runtimes, det, order) ==
    [i \in DOMAIN order |-> PlanEntry(order[i], runtimes[order[i]], det)]

\* Inputs of the plan builder
ManifestKeys == {"node", "java", "deno"}

Requirements ==
    { Latest,
      << ">=", "2", ".", "0", ".", "0" >>,
      << "^", "1", ".", "1", ".", "0" >>,
      << "~", "1", ".", "0", ".", "0" >>,
      << "2" >>,
      << "1", ".", "1", ".", "0" >>,
      << "not-a-range" >> }

InstalledStrings ==
    { << "1", ".", "0", ".", "2" >>,
      << "v", "1", ".", "1", ".", "0" >>,
      << "2", ".", "1", ".", "0" >>,
      << "1", "0", ".", "0", ".", "0" >>,
      VersionUnknown,
      << "nightly" >> }

DetectCatalogue == {"Node.js", "Java"}

SystemPath(name) == << "/usr/bin/", name >>

DetectionInfos(name) ==
    { [Name |-> name, Installed |-> FALSE, Version |-> << >>, Path |-> << >>] }
    \cup { [Name |-> name, Installed |-> TRUE, Version |-> v, Path |-> SystemPath(name)]
            : v \in InstalledStrings }

Manifests ==
    UNION { [ks -> Requirements] :
            ks \in { k \in SUBSET ManifestKeys : Cardinality(k) <= MaxManifestKeys } }

Snapshots ==
    { d \in [DetectCatalogue -> UNION { DetectionInfos(n) : n \in DetectCatalogue }] :
        \A n \in DetectCatalogue : d[n].Name = n }

PlanInit ==
    /\ manifestRuntimes \in Manifests
    /\ detected \in Snapshots
    /\ plan = << >>
    /\ planPc = "loaded"

PlanIdle ==
    /\ manifestRuntimes = << >>
    /\ detected = << >>
    /\ plan = << >>
    /\ planPc = "idle"

\* engine.BuildPlan(m)
DoBuildPlan ==
    /\ planPc = "loaded"
    /\ \E order \in Perms(DOMAIN manifestRuntimes) :
           plan' = BuildPlan(manifestRuntimes, detected, order)
    /\ planPc' = "built"
    /\ UNCHANGED << manifestRuntimes, detected >>
    /\ UNCHANGED PlanFrame

\* BuildPlan called a second time with the same manifest on a host whose
\* detection results are the same, as runInstallation does after
\* handleLoadManifest; its plan is the one that is executed
DoBuildPlanAgain ==
    /\ planPc = "built"
    /\ \E order \in Perms(DOMAIN manifestRuntimes) :
           rplan' = BuildPlan(manifestRuntimes, detected, order)
    /\ planPc' = "rebuilt"
    /\ UNCHANGED << manifestRuntimes, detected, plan >>
    /\ UNCHANGED << pc, idx, st, results, execErr, ledgerFile, rc, shellFiles, runs,
                    undoVars >>
    /\ UNCHANGED << installVars, extractVars, serverVars, hostVars, cmdVars, resolveVars, scanVars,
       tuiVars, hubVars >>

ReplanNext ==
    \/ DoBuildPlan
    \/ DoBuildPlanAgain

\* ------------------------------------------------------------------------
\* Paths (filepath.Join on a Unix host) and the installers' directories
\* ------------------------------------------------------------------------
Join(a, b) == a \o << "/" >> \o b

\* RuntimesDir(): ~/.templatr/runtimes
RuntimesDir == << "~/.templatr/runtimes" >>

TargetDir(name, version) == Join(Join(RuntimesDir, << name >>), version)

\* Installer.BinDir
BinDir(name, installDir) ==
    IF name = "rust" THEN Join(Join(installDir, << ".cargo" >>), << "bin" >>)
    ELSE Join(installDir, << "bin" >>)

\* Installer.EnvVars: the variables the installer sets, as name -> value
EnvVars(name, installDir) ==
    CASE name = "java" -> [n \in {"JAVA_HOME"} |-> installDir]
      [] name = "go"   -> [n \in {"GOROOT"} |-> installDir]
      [] OTHER         -> << >>

\* init(): the installers Register adds to the registry
registry == KnownRuntimes

StubInstallers == {"ruby", "php", "dotnet"}

\* ------------------------------------------------------------------------
\* Download/Extract Engine: VerifyChecksum
\* ------------------------------------------------------------------------
ToLowerTok(t) ==
    CASE t = "A" -> "a" [] t = "B" -> "b" [] t = "Y" -> "y" [] t = "E" -> "e"
      [] t = "S" -> "s" [] t = "N" -> "n"
      [] t = "Microsoft" -> "microsoft" [] t = "Store" -> "store"
      [] t = "No .NET SDKs were found" -> "no .net sdks were found"
      [] OTHER -> t

ToLower(s) == [i \in DOMAIN s |-> ToLowerTok(s[i])]

EqualFold(a, b) == ToLower(a) = ToLower(b)

\* A verification that compares the first character of the digests only
VerifyChecksumPrefixOnly(fileDigest, expectedHash) ==
    ~HasPrefix(ToLower(fileDigest), First(ToLower(expectedHash)))

\* VerifyChecksum(filePath, expectedHash): TRUE when it returns an error.
\* fileDigest is hex.EncodeToString of the file's SHA-256.
VerifyChecksumErr(fileDigest, expectedHash) == ~EqualFold(fileDigest, expectedHash)

\* Digests of the files a download can produce, and the checksums a release
\* index can publish (upper or lower case; empty when the index has none)
FileDigests == { << "a", "1" >> }

PublishedChecksums == { << "a", "1" >>, << "A", "1" >>, << "b", "2" >>, << "a" >> }

NoChecksum == << >>

\* ------------------------------------------------------------------------
\* Installer.Install, step by step
\* ------------------------------------------------------------------------
NoInstall == [name |-> "", version |-> << >>, targetDir |-> << >>]

\* a performed step, its outcome, and for a verification the two digests compared
StepOf(name, ok, of) == [step |-> name, ok |-> ok, of |-> of]

Step(name, ok) == StepOf(name, ok, << >>)

\* the first step of each installer's Install
FirstStep(name) ==
    CASE name \in StubInstallers                        -> "stub"
      [] name \in {"node", "rust"}                      -> "download"
      [] name \in {"python", "flutter", "java", "go"}   -> "meta"

\* what follows a successful download
AfterDownload(name, exp) ==
    CASE name = "node"   -> "checksum"
      [] name = "python" -> "extract"
      [] name = "rust"   -> "chmod"
      [] name \in {"flutter", "java", "go"} ->
            IF exp # NoChecksum THEN "verify" ELSE "extract"

\* An installer that extracts whatever the verification returned
AfterVerifyIgnoreErr(err) == "extract"

\* what follows a checksum verification that returned err
AfterVerify(err) == IF err THEN "err" ELSE "extract"

\* defer os.Remove(tmpFile) runs when Install returns
InstallReturns(next) == next \in {"ok", "err"}

\* Ruby/PHP/.NET: Install returns the not-implemented error
InstallStub ==
    /\ ipc = "stub"
    /\ ipc' = "err"
    /\ trace' = Append(trace, Step("install", FALSE))
    /\ UNCHANGED << inst, tmpFile, expected, disk >>
    /\ UNCHANGED InstallFrame

\* FetchJSON of the release index and the search for the platform asset
\* (python, flutter, java, go)
InstallFetchMeta ==
    /\ ipc = "meta"
    /\ \/ /\ ipc' = "err"
          /\ trace' = Append(trace, Step("meta", FALSE))
          /\ UNCHANGED expected
       \/ /\ ipc' = "download"
          /\ trace' = Append(trace, Step("meta", TRUE))
          /\ IF inst.name = "python"
             THEN expected' = NoChecksum
             ELSE expected' \in PublishedChecksums \cup {NoChecksum}
    /\ UNCHANGED << inst, tmpFile, disk >>
    /\ UNCHANGED InstallFrame

\* DownloadFile(url, tmpFile, progress)
InstallDownload ==
    /\ ipc = "download"
    /\ \/ /\ ipc' = "err"
          /\ trace' = Append(trace, Step("download", FALSE))
          /\ UNCHANGED tmpFile
       \/ /\ ipc' = AfterDownload(inst.name, expected)
          /\ trace' = Append(trace, Step("download", TRUE))
          /\ tmpFile' \in FileDigests
    /\ UNCHANGED << inst, expected, disk >>
    /\ UNCHANGED InstallFrame

\* node: FetchChecksumFromURL(checksumURL, filename)
InstallFetchChecksum ==
    /\ ipc = "checksum"
    /\ \/ /\ ipc' = "err"
          /\ trace' = Append(trace, Step("checksum", FALSE))
          /\ tmpFile' = << >>
          /\ UNCHANGED expected
       \/ /\ ipc' = "verify"
          /\ trace' = Append(trace, Step("checksum", TRUE))
          /\ expected' \in PublishedChecksums
          /\ UNCHANGED tmpFile
    /\ UNCHANGED << inst, disk >>
    /\ UNCHANGED InstallFrame

\* VerifyChecksum(tmpFile, expectedHash) and the caller's error check
InstallVerify ==
    /\ ipc = "verify"
    /\ LET err  == VerifyChecksumErr(tmpFile, expected)
           next == AfterVerify(err)
       IN  /\ ipc' = next
           /\ trace' = Append(trace, StepOf("verify", ~err, << tmpFile, expected >>))
           /\ tmpFile' = IF InstallReturns(next) THEN << >> ELSE tmpFile
    /\ UNCHANGED << inst, expected, disk >>
    /\ UNCHANGED InstallFrame

\* ExtractAndFlatten(tmpFile, targetDir): the archive is extracted to a scratch
\* directory; only then is targetDir removed (os.RemoveAll) and replaced by the
\* extracted tree, so a targetDir that existed loses its content: the step
\* records that as "replaced"
InstallExtract ==
    /\ ipc = "extract"
    /\ \/ /\ ipc' = "err"
          /\ trace' = Append(trace, Step("extract", FALSE))
          /\ UNCHANGED disk
       \/ /\ ipc' = "ok"
          /\ trace' = Append(trace,
                         StepOf("extract", TRUE,
                                IF inst.targetDir \in disk THEN << "replaced" >>
                                ELSE << >>))
          /\ disk' = disk \cup {inst.targetDir}
    /\ tmpFile' = << >>
    /\ UNCHANGED << inst, expected >>
    /\ UNCHANGED InstallFrame

\* rust: os.Chmod(tmpFile, 0o755)
InstallChmod ==
    /\ ipc = "chmod"
    /\ \/ /\ ipc' = "err"
          /\ trace' = Append(trace, Step("chmod", FALSE))
          /\ tmpFile' = << >>
       \/ /\ ipc' = "run"
          /\ trace' = Append(trace, Step("chmod", TRUE))
          /\ UNCHANGED tmpFile
    /\ UNCHANGED << inst, expected, disk >>
    /\ UNCHANGED InstallFrame

\* rust: exec rustup-init with CARGO_HOME and RUSTUP_HOME under targetDir
InstallRunRustup ==
    /\ ipc = "run"
    /\ \/ /\ ipc' = "err"
          /\ trace' = Append(trace, Step("execute", FALSE))
          /\ UNCHANGED disk
       \/ /\ ipc' = "ok"
          /\ trace' = Append(trace, Step("execute", TRUE))
          /\ disk' = disk \cup {inst.targetDir}
    /\ tmpFile' = << >>
    /\ UNCHANGED << inst, expected >>
    /\ UNCHANGED InstallFrame

InstallStep ==
    \/ InstallStub
    \/ InstallFetchMeta
    \/ InstallDownload
    \/ InstallFetchChecksum
    \/ InstallVerify
    \/ InstallExtract
    \/ InstallChmod
    \/ InstallRunRustup

\* Versions a release index can resolve to; "1" is a prefix of "10"
ResolvableVersions == { << "1" >>, << "1", "0" >> }

Stable == << "stable" >>

\* One Install call of any registered installer
InstallInit ==
    /\ \E n \in registry, v \in ResolvableVersions \cup {Stable} :
          /\ inst = [name |-> n, version |-> v, targetDir |-> TargetDir(n, v)]
          /\ ipc = FirstStep(n)
    /\ tmpFile = << >>
    /\ expected = NoChecksum
    /\ trace = << >>
    /\ disk = {}

InstallIdle ==
    /\ inst = NoInstall
    /\ ipc = "idle"
    /\ tmpFile = << >>
    /\ expected = NoChecksum
    /\ trace = << >>
    /\ disk = {}

\* ------------------------------------------------------------------------
\* Installation Ledger (State)
\* ------------------------------------------------------------------------
\* NewState(); the time stamps InstalledAt/AddedAt are left out of the records
NewState ==
    [Version |-> "1.0.0", Installations |-> << >>,
     PathModifications |-> << >>, EnvModifications |-> << >>]

AddInstallation(s, i) == [s EXCEPT !.Installations = Append(@, i)]

AddPathModification(s, mod) == [s EXCEPT !.PathModifications = Append(@, mod)]

AddEnvModification(s, mod) == [s EXCEPT !.EnvModifications = Append(@, mod)]

RemoveInstallation(s, runtime, version) ==
    LET keep(i) == ~(i.Runtime = runtime /\ i.Version = version)
    IN  [s EXCEPT !.Installations = SelectSeq(@, keep)]

RemovePathModification(s, value) ==
    LET keep(m) == m.Value # value
    IN  [s EXCEPT !.PathModifications = SelectSeq(@, keep)]

RemoveEnvModification(s, name) ==
    LET keep(m) == m.Name # name
    IN  [s EXCEPT !.EnvModifications = SelectSeq(@, keep)]

\* the ledger file before the first Save
NoFile == [exists |-> FALSE, state |-> NewState]

\* The json struct tags of State, Installation, PathModification and
\* EnvModification: for each field of the model its key in the document, whether
\* the tag says omitempty, and the zero value a decoder leaves when the key is
\* absent (the timestamps and the checksum are not part of the model's records).
JSONFields(kind) ==
    CASE kind = "State" ->
           [Version           |-> [tag |-> "version", omitempty |-> FALSE, zero |-> ""],
            Installations     |-> [tag |-> "installations", omitempty |-> FALSE,
                                   zero |-> << >>],
            PathModifications |-> [tag |-> "path_modifications", omitempty |-> FALSE,
                                   zero |-> << >>],
            EnvModifications  |-> [tag |-> "env_modifications", omitempty |-> TRUE,
                                   zero |-> << >>]]
      [] kind = "Installation" ->
           [Runtime         |-> [tag |-> "runtime", omitempty |-> FALSE, zero |-> ""],
            Version         |-> [tag |-> "version", omitempty |-> FALSE, zero |-> << >>],
            Path            |-> [tag |-> "path", omitempty |-> FALSE, zero |-> << >>],
            Template        |-> [tag |-> "template", omitempty |-> TRUE, zero |-> ""],
            PreviousVersion |-> [tag |-> "previous_version", omitempty |-> TRUE,
                                 zero |-> << >>],
            PreviousPath    |-> [tag |-> "previous_path", omitempty |-> TRUE,
                                 zero |-> << >>],
            Action          |-> [tag |-> "action", omitempty |-> FALSE, zero |-> ""]]
      [] kind = "PathModification" ->
           [Method |-> [tag |-> "method", omitempty |-> FALSE, zero |-> ""],
            File   |-> [tag |-> "file", omitempty |-> TRUE, zero |-> ""],
            Line   |-> [tag |-> "line", omitempty |-> TRUE, zero |-> << >>],
            Value  |-> [tag |-> "value", omitempty |-> FALSE, zero |-> << >>]]
      [] kind = "EnvModification" ->
           [Name   |-> [tag |-> "name", omitempty |-> FALSE, zero |-> ""],
            Value  |-> [tag |-> "value", omitempty |-> FALSE, zero |-> << >>],
            Method |-> [tag |-> "method", omitempty |-> FALSE, zero |-> ""],
            File   |-> [tag |-> "file", omitempty |-> TRUE, zero |-> ""]]

\* An encoder that never writes a field tagged omitempty
MarshalStructDropOptional(kind, v) ==
    LET F    == JSONFields(kind)
        keep == { f \in DOMAIN F : ~F[f].omitempty }
    IN  [t \in { F[f].tag : f \in keep } |->
            v[CHOOSE f \in keep : F[f].tag = t]]

\* json.Marshal of one struct: a document object holding a key for every field
\* except the omitempty fields whose value is empty
MarshalStruct(kind, v) ==
    LET F    == JSONFields(kind)
        keep == { f \in DOMAIN F : ~(F[f].omitempty /\ v[f] = F[f].zero) }
    IN  [t \in { F[f].tag : f \in keep } |->
            v[CHOOSE f \in keep : F[f].tag = t]]

\* json.Unmarshal into a zeroed struct: a field is set from its key when the
\* document has it and keeps its zero value otherwise
UnmarshalStruct(kind, doc) ==
    LET F == JSONFields(kind)
    IN  [f \in DOMAIN F |->
            IF F[f].tag \in DOMAIN doc THEN doc[F[f].tag] ELSE F[f].zero]

\* json.MarshalIndent(s): the document of a ledger
Marshal(s) ==
    MarshalStruct("State",
        [Version |-> s.Version,
         Installations |->
            [i \in DOMAIN s.Installations |->
                MarshalStruct("Installation", s.Installations[i])],
         PathModifications |->
            [i \in DOMAIN s.PathModifications |->
                MarshalStruct("PathModification", s.PathModifications[i])],
         EnvModifications |->
            [i \in DOMAIN s.EnvModifications |->
                MarshalStruct("EnvModification", s.EnvModifications[i])]])

\* json.Unmarshal(data, &s)
Unmarshal(doc) ==
    LET top == UnmarshalStruct("State", doc)
    IN  [Version |-> top.Version,
         Installations |->
            [i \in DOMAIN top.Installations |->
                UnmarshalStruct("Installation", top.Installations[i])],
         PathModifications |->
            [i \in DOMAIN top.PathModifications |->
                UnmarshalStruct("PathModification", top.PathModifications[i])],
         EnvModifications |->
            [i \in DOMAIN top.EnvModifications |->
                UnmarshalStruct("EnvModification", top.EnvModifications[i])]]

\* Load(): a missing file is an empty ledger, an existing one is decoded
Load(file) == IF ~file.exists THEN NewState ELSE Unmarshal(file.state)

\* Save(): the file holds the encoded ledger
Save(s) == [exists |-> TRUE, state |-> Marshal(s)]

\* the UndoResult of a call that found nothing to report
NoUndoResult == [PathMod |-> << >>, EnvMods |-> << >>, Previous |-> << >>]

\* An undo that removes the directory and the installation record only
UndoInstallationKeepPathMod(s, d, runtime, version, removeOk) ==
    LET match(i) == i.Runtime = runtime /\ i.Version = version
        found    == SelectSeq(s.Installations, match)
    IN  IF found = << >>
        THEN [err |-> TRUE, result |-> NoUndoResult, st |-> s, disk |-> d]
        ELSE [err |-> FALSE, result |-> NoUndoResult,
              st |-> RemoveInstallation(s, runtime, version),
              disk |-> d \ {found[1].Path}]

\* An undo that looks the installation up by runtime alone
UndoInstallationAnyVersion(s, d, runtime, version, removeOk) ==
    LET match(i) == i.Runtime = runtime
        other(i) == i.Runtime # runtime
        found    == SelectSeq(s.Installations, match)
    IN  IF found = << >>
        THEN [err |-> TRUE, result |-> NoUndoResult, st |-> s, disk |-> d]
        ELSE [err |-> FALSE, result |-> NoUndoResult,
              st |-> [s EXCEPT !.Installations = SelectSeq(s.Installations, other)],
              disk |-> d \ {found[1].Path}]

RECURSIVE RemoveEnvModifications(_, _)
RemoveEnvModifications(s, mods) ==
    IF mods = << >> THEN s
    ELSE RemoveEnvModifications(RemoveEnvModification(s, mods[1].Name), Tail(mods))

\* UndoInstallation(runtime, version) on ledger s with directories d on disk.
\* removeOk is whether os.RemoveAll of the directory succeeds.
\* Result: err, the UndoResult (PathMod and Previous hold zero or one element),
\* the ledger and the disk afterwards.
UndoInstallation(s, d, runtime, version, removeOk) ==
    LET match(i) == i.Runtime = runtime /\ i.Version = version
        found    == SelectSeq(s.Installations, match)
    IN  IF found = << >>
        THEN [err |-> TRUE, result |-> NoUndoResult, st |-> s, disk |-> d]
        ELSE
        LET target   == found[1]
            previous == IF target.PreviousVersion # << >>
                        THEN << [Runtime |-> target.Runtime,
                                 Version |-> target.PreviousVersion,
                                 Path |-> target.PreviousPath] >>
                        ELSE << >>
            prefixed(m) == target.Path # << >> /\ HasPrefix(m.Value, target.Path)
            \* the loop over PathModifications stops at the first match
            pathMod  == First(SelectSeq(s.PathModifications, prefixed))
            envMods  == SelectSeq(s.EnvModifications, prefixed)
            s1 == RemoveInstallation(s, runtime, version)
            s2 == IF pathMod # << >>
                  THEN RemovePathModification(s1, pathMod[1].Value) ELSE s1
            s3 == RemoveEnvModifications(s2, envMods)
        IN  IF target.Path # << >> /\ ~removeOk
            THEN [err |-> TRUE, result |-> NoUndoResult, st |-> s, disk |-> d]
            ELSE [err |-> FALSE,
                  result |-> [PathMod |-> pathMod, EnvMods |-> envMods,
                              Previous |-> previous],
                  st |-> s3, disk |-> d \ {target.Path}]

\* ------------------------------------------------------------------------
\* Environment Mutator on a Unix host: shell configuration files
\* ------------------------------------------------------------------------
\* A file's content is the sequence of its lines, as strings.Split(content, "\n")
\* gives them; the empty file is one empty line.
RcFiles == {".zshrc", ".bashrc"}

EmptyFile == << << >> >>

MarkerTag == "# templatr-setup: "

PathMarker(binDir) == << MarkerTag >> \o binDir

PathExport(binDir) == << "export PATH=\"" >> \o binDir \o << ":$PATH\"" >>

EnvMarker(name) == << MarkerTag, name >>

EnvExport(name, value) == << "export ", name, "=\"" >> \o value \o << "\"" >>

\* A skip test that looks at the first line of the file only
FileContainsFirstLine(content, marker) == Contains(content[1], marker)

\* strings.Contains(string(content), marker), marker holding no newline
FileContains(content, marker) ==
    \E i \in DOMAIN content : Contains(content[i], marker)

\* fmt.Fprintf(f, "\n%s\n", marker + "\n" + exportLine) on a file opened O_APPEND
AppendBlock(content, marker, exportLine) ==
    content \o << marker, exportLine, << >> >>

\* the loop of addToPathUnix / setEnvVarUnix over the shell files:
\* the files after the loop and the last file modified ("" when none)
RECURSIVE AppendToFiles(_, _, _, _, _)
AppendToFiles(files, rcs, marker, exportLine, modifiedFile) ==
    IF files = << >> THEN [rc |-> rcs, modifiedFile |-> modifiedFile]
    ELSE LET f == files[1]
         IN  IF FileContains(rcs[f], marker)
             THEN AppendToFiles(Tail(files), rcs, marker, exportLine, modifiedFile)
             ELSE AppendToFiles(Tail(files),
                                [rcs EXCEPT ![f] = AppendBlock(@, marker, exportLine)],
                                marker, exportLine, f)

\* addToPathUnix(binDir): the files afterwards and the returned entry (none: << >>)
addToPathUnix(files, rcs, binDir) ==
    LET r == AppendToFiles(files, rcs, PathMarker(binDir), PathExport(binDir), "")
    IN  [rc |-> r.rc,
         entry |-> IF r.modifiedFile # ""
                   THEN << [Method |-> "shell_rc", File |-> r.modifiedFile,
                            Line |-> << PathMarker(binDir), PathExport(binDir) >>,
                            Value |-> binDir] >>
                   ELSE << >>,
         \* "no shell config files found"
         err |-> files = << >>]

\* setEnvVarUnix(name, value)
setEnvVarUnix(files, rcs, name, value) ==
    LET r == AppendToFiles(files, rcs, EnvMarker(name), EnvExport(name, value), "")
    IN  [rc |-> r.rc,
         entry |-> IF r.modifiedFile # ""
                   THEN << [Name |-> name, Value |-> value, Method |-> "shell_rc",
                            File |-> r.modifiedFile] >>
                   ELSE << >>,
         err |-> files = << >>]

\* A filter that drops every block carrying the tool's tag, whatever it names
RECURSIVE DropBlocksAnyTag(_, _, _)
DropBlocksAnyTag(lines, marker, skipNext) ==
    IF lines = << >> THEN << >>
    ELSE IF Contains(lines[1], << MarkerTag >>)
         THEN DropBlocksAnyTag(Tail(lines), marker, TRUE)
    ELSE IF skipNext THEN DropBlocksAnyTag(Tail(lines), marker, FALSE)
    ELSE << lines[1] >> \o DropBlocksAnyTag(Tail(lines), marker, FALSE)

\* the filter loop of removeFromPathUnix / removeEnvVarUnix: drop each line
\* containing the marker and the line after it
RECURSIVE DropBlocks(_, _, _)
DropBlocks(lines, marker, skipNext) ==
    IF lines = << >> THEN << >>
    ELSE IF Contains(lines[1], marker) THEN DropBlocks(Tail(lines), marker, TRUE)
    ELSE IF skipNext THEN DropBlocks(Tail(lines), marker, FALSE)
    ELSE << lines[1] >> \o DropBlocks(Tail(lines), marker, FALSE)

\* os.WriteFile(file, strings.Join(filtered, "\n"))
WriteLines(filtered) == IF filtered = << >> THEN EmptyFile ELSE filtered

removeFromPathUnix(rcs, entry) ==
    IF entry.File = "" THEN rcs
    ELSE [rcs EXCEPT ![entry.File] =
            WriteLines(DropBlocks(@, PathMarker(entry.Value), FALSE))]

removeEnvVarUnix(rcs, entry) ==
    IF entry.File = "" THEN rcs
    ELSE [rcs EXCEPT ![entry.File] =
            WriteLines(DropBlocks(@, EnvMarker(entry.Name), FALSE))]

\* ------------------------------------------------------------------------
\* Environment Mutator on a Windows host: the user-level environment
\* ------------------------------------------------------------------------
\* Path is the user PATH as strings.Split(currentPath, ";") gives it, Vars the
\* user-level variables by name (<< >>: not set)
EnvNames == {"GOROOT", "JAVA_HOME"}

NoUserEnv == [Path |-> << >>, Vars |-> [n \in EnvNames |-> << >>]]

\* addToPathWindows(binDir); readOk and writeOk are whether the two PowerShell
\* commands succeed
addToPathWindows(env, binDir, readOk, writeOk) ==
    IF ~readOk THEN [env |-> env, entry |-> << >>, err |-> TRUE]
    ELSE IF \E i \in DOMAIN env.Path : EqualFold(TrimSpace(env.Path[i]), binDir)
    THEN [env |-> env, entry |-> << >>, err |-> FALSE]
    ELSE IF ~writeOk THEN [env |-> env, entry |-> << >>, err |-> TRUE]
    ELSE [env |-> [env EXCEPT !.Path = << binDir >> \o @],
          entry |-> << [Method |-> "windows_env", File |-> "", Line |-> << >>,
                        Value |-> binDir] >>,
          err |-> FALSE]

\* removeFromPathWindows(entry): the user environment afterwards
removeFromPathWindows(env, entry, readOk, writeOk) ==
    LET keep(p) == ~EqualFold(TrimSpace(p), entry.Value)
    IN  IF readOk /\ writeOk THEN [env EXCEPT !.Path = SelectSeq(@, keep)] ELSE env

setEnvVarWindows(env, name, value, writeOk) ==
    IF ~writeOk THEN [env |-> env, entry |-> << >>, err |-> TRUE]
    ELSE [env |-> [env EXCEPT !.Vars[name] = value],
          entry |-> << [Name |-> name, Value |-> value, Method |-> "windows_env",
                        File |-> ""] >>,
          err |-> FALSE]

removeEnvVarWindows(env, entry, writeOk) ==
    IF writeOk THEN [env EXCEPT !.Vars[entry.Name] = << >>] ELSE env

\* ------------------------------------------------------------------------
\* Environment Mutator: AddToPath, RemoveFromPath, SetEnvVar, RemoveEnvVar
\* ------------------------------------------------------------------------
\* Each dispatches on runtime.GOOS; the result holds the shell files and the user
\* environment afterwards, and for the two adders the returned entry and error.
AddToPath(os, files, rcs, env, binDir, readOk, writeOk) ==
    IF os = "windows"
    THEN LET w == addToPathWindows(env, binDir, readOk, writeOk)
         IN  [rc |-> rcs, env |-> w.env, entry |-> w.entry, err |-> w.err]
    ELSE LET u == addToPathUnix(files, rcs, binDir)
         IN  [rc |-> u.rc, env |-> env, entry |-> u.entry, err |-> u.err]

RemoveFromPath(os, rcs, env, entry, readOk, writeOk) ==
    IF os = "windows"
    THEN [rc |-> rcs, env |-> removeFromPathWindows(env, entry, readOk, writeOk)]
    ELSE [rc |-> removeFromPathUnix(rcs, entry), env |-> env]

SetEnvVar(os, files, rcs, env, name, value, writeOk) ==
    IF os = "windows"
    THEN LET w == setEnvVarWindows(env, name, value, writeOk)
         IN  [rc |-> rcs, env |-> w.env, entry |-> w.entry, err |-> w.err]
    ELSE LET u == setEnvVarUnix(files, rcs, name, value)
         IN  [rc |-> u.rc, env |-> env, entry |-> u.entry, err |-> u.err]

RemoveEnvVar(os, rcs, env, entry, writeOk) ==
    IF os = "windows"
    THEN [rc |-> rcs, env |-> removeEnvVarWindows(env, entry, writeOk)]
    ELSE [rc |-> removeEnvVarUnix(rcs, entry), env |-> env]

NoEnvCall == [n |-> 0, op |-> "", arg |-> << >>, ret |-> << >>, err |-> FALSE]

EnvIdle ==
    /\ goos = "linux"
    /\ userEnv = NoUserEnv
    /\ envCall = NoEnvCall

\* ------------------------------------------------------------------------
\* Execution Orchestrator: the setup command's ExecutePlan, and uninstall
\* ------------------------------------------------------------------------
TemplateSlug == "template"

\* Plans the setup command can build on the modelled hosts: node is absent, too
\* old or recent enough; the other runtimes are absent
ExecKeys == {"node", "python", "go", "ruby"}

ExecRequirement == << ">=", "2", ".", "0", ".", "0" >>

ExecSnapshots ==
    { [n \in {"Node.js"} |-> i] : i \in
        { [Name |-> "Node.js", Installed |-> FALSE, Version |-> << >>, Path |-> << >>],
          [Name |-> "Node.js", Installed |-> TRUE,
           Version |-> << "1", ".", "0", ".", "2" >>, Path |-> SystemPath("node")],
          [Name |-> "Node.js", Installed |-> TRUE,
           Version |-> << "2", ".", "1", ".", "0" >>, Path |-> SystemPath("node")] } }

ExecPlans ==
    UNION { { BuildPlan([k \in ks |-> ExecRequirement], d, order) :
                d \in ExecSnapshots, order \in Perms(ks) } :
            ks \in { k \in SUBSET ExecKeys : Cardinality(k) \in 1..MaxPlanLen } }

\* A NeedsAction that counts only the entries planned as install
NeedsActionInstallOnly(p) == \E i \in DOMAIN p : p[i].Action = ActionInstall

\* SetupPlan.NeedsAction()
NeedsAction(p) == \E i \in DOMAIN p : p[i].Action # ActionSkip

NoUndo == [runtime |-> "", version |-> << >>, err |-> TRUE,
           result |-> NoUndoResult, before |-> NewState]

ShellFileChoices == { << ".zshrc" >>, << ".bashrc" >>, << ".zshrc", ".bashrc" >> }

ExecInit ==
    /\ pc = "idle"
    /\ rplan = << >>
    /\ idx = 0
    /\ st = NewState
    /\ results = << >>
    /\ execErr = FALSE
    /\ ledgerFile = NoFile
    /\ rc = [f \in RcFiles |-> EmptyFile]
    /\ shellFiles \in ShellFileChoices
    /\ runs = 0
    /\ snapshot = << >>
    /\ ui = 0
    /\ undone = << >>
    /\ undoErrs = << >>
    /\ lastUndo = NoUndo

ExecIdle ==
    /\ pc = "off"
    /\ rplan = << >>
    /\ idx = 0
    /\ st = NewState
    /\ results = << >>
    /\ execErr = FALSE
    /\ ledgerFile = NoFile
    /\ rc = [f \in RcFiles |-> EmptyFile]
    /\ shellFiles = << >>
    /\ runs = 0
    /\ snapshot = << >>
    /\ ui = 0
    /\ undone = << >>
    /\ undoErrs = << >>
    /\ lastUndo = NoUndo

\* runSetupCommand up to the call of ExecutePlan, and ExecutePlan's state.Load()
StartSetup ==
    /\ pc = "idle"
    /\ runs < MaxRuns
    /\ \E p \in ExecPlans :
          /\ NeedsAction(p)
          /\ rplan' = p
    /\ runs' = runs + 1
    /\ st' = Load(ledgerFile)
    /\ idx' = 1
    /\ results' = << >>
    /\ execErr' = FALSE
    /\ trace' = << >>
    /\ pc' = "loop"
    /\ UNCHANGED << ledgerFile, rc, shellFiles, undoVars, inst, ipc, tmpFile, expected, disk >>
    /\ UNCHANGED ExecFrame

\* A loop head that sends every entry to its installer
ExecLoopNoSkip ==
    /\ pc = "loop"
    /\ IF idx > Len(rplan)
       THEN pc' = "save" /\ UNCHANGED << idx, execErr, trace >>
       ELSE IF rplan[idx].Name \notin registry
       THEN pc' = "returned" /\ execErr' = TRUE /\ UNCHANGED << idx, trace >>
       ELSE pc' = "resolve" /\ trace' = << >> /\ UNCHANGED << idx, execErr >>
    /\ UNCHANGED << rplan, st, results, ledgerFile, rc, shellFiles, runs, undoVars,
                    inst, ipc, tmpFile, expected, disk >>
    /\ UNCHANGED ExecFrame

\* the head of ExecutePlan's loop: skip entries, GetInstaller
ExecLoop ==
    /\ pc = "loop"
    /\ IF idx > Len(rplan)
       THEN pc' = "save" /\ UNCHANGED << idx, execErr, trace >>
       ELSE IF rplan[idx].Action = ActionSkip
       THEN idx' = idx + 1 /\ UNCHANGED << pc, execErr, trace >>
       ELSE IF rplan[idx].Name \notin registry
       THEN pc' = "returned" /\ execErr' = TRUE /\ UNCHANGED << idx, trace >>
       ELSE pc' = "resolve" /\ trace' = << >> /\ UNCHANGED << idx, execErr >>
    /\ UNCHANGED << rplan, st, results, ledgerFile, rc, shellFiles, runs, undoVars,
                    inst, ipc, tmpFile, expected, disk >>
    /\ UNCHANGED ExecFrame

\* A registry whose every installer resolves a version
ResolveVersionImplemented(name) ==
    IF name = "rust" THEN {Stable} ELSE ResolvableVersions

\* installer.ResolveVersion(rp.RequiredVersion): the versions it can return
ResolveVersion(name) ==
    IF name \in StubInstallers THEN {}
    ELSE IF name = "rust" THEN {Stable}
    ELSE ResolvableVersions

\* ResolveVersion fails: ExecutePlan returns results and the error
ExecResolveFails ==
    /\ pc = "resolve"
    /\ rplan[idx].Name # "rust"
    /\ trace' = Append(trace, Step("resolve", FALSE))
    /\ pc' = "returned"
    /\ execErr' = TRUE
    /\ UNCHANGED << rplan, idx, st, results, ledgerFile, rc, shellFiles, runs, undoVars,
                    inst, ipc, tmpFile, expected, disk >>
    /\ UNCHANGED ExecFrame

\* ResolveVersion succeeds: targetDir is computed and installer.Install is called
ExecResolve ==
    /\ pc = "resolve"
    /\ \E v \in ResolveVersion(rplan[idx].Name) :
          inst' = [name |-> rplan[idx].Name, version |-> v,
                   targetDir |-> TargetDir(rplan[idx].Name, v)]
    /\ ipc' = FirstStep(rplan[idx].Name)
    /\ expected' = NoChecksum
    /\ trace' = Append(trace, Step("resolve", TRUE))
    /\ pc' = "install"
    /\ UNCHANGED << rplan, idx, st, results, execErr, ledgerFile, rc, shellFiles, runs,
                    undoVars, tmpFile, disk >>
    /\ UNCHANGED ExecFrame

\* installer.Install returned an error: ExecutePlan returns results and the error
ExecInstallFails ==
    /\ pc = "install"
    /\ ipc = "err"
    /\ ipc' = "idle"
    /\ inst' = NoInstall
    /\ expected' = NoChecksum
    /\ pc' = "returned"
    /\ execErr' = TRUE
    /\ UNCHANGED << rplan, idx, st, results, ledgerFile, rc, shellFiles, runs, undoVars,
                    tmpFile, trace, disk >>
    /\ UNCHANGED ExecFrame

\* An ExecutePlan that returns the error of AddToPath
ExecAddToPathAbortOnError ==
    /\ pc = "install"
    /\ ipc = "ok"
    /\ LET r == addToPathUnix(shellFiles, rc, BinDir(inst.name, inst.targetDir))
       IN  /\ rc' = r.rc
           /\ st' = IF r.err THEN st
                    ELSE IF r.entry # << >> THEN AddPathModification(st, r.entry[1])
                    ELSE st
           /\ trace' = Append(trace, Step("path", ~r.err))
           /\ pc' = IF r.err THEN "returned" ELSE "env"
           /\ execErr' = r.err
    /\ ipc' = "idle"
    /\ expected' = NoChecksum
    /\ UNCHANGED << rplan, idx, results, ledgerFile, shellFiles, runs, undoVars,
                    inst, tmpFile, disk >>
    /\ UNCHANGED ExecFrame

\* installer.Install returned nil: BinDir, AddToPath, AddPathModification
ExecAddToPath ==
    /\ pc = "install"
    /\ ipc = "ok"
    /\ LET r == addToPathUnix(shellFiles, rc, BinDir(inst.name, inst.targetDir))
       IN  /\ rc' = r.rc
           /\ st' = IF r.err THEN st
                    ELSE IF r.entry # << >> THEN AddPathModification(st, r.entry[1])
                    ELSE st
           /\ trace' = Append(trace, Step("path", ~r.err))
    /\ ipc' = "idle"
    /\ expected' = NoChecksum
    /\ pc' = "env"
    /\ UNCHANGED << rplan, idx, results, execErr, ledgerFile, shellFiles, runs, undoVars,
                    inst, tmpFile, disk >>
    /\ UNCHANGED ExecFrame

\* the loop over installer.EnvVars(targetDir); no installer has more than one
RECURSIVE SetEnvVars(_, _, _, _, _)
SetEnvVars(names, envVars, files, rcs, s) ==
    IF names = {} THEN [rc |-> rcs, st |-> s, failed |-> FALSE]
    ELSE LET n == CHOOSE x \in names : TRUE
             r == setEnvVarUnix(files, rcs, n, envVars[n])
             rest == SetEnvVars(names \ {n}, envVars, files, r.rc,
                                IF r.err THEN s
                                ELSE IF r.entry # << >>
                                THEN AddEnvModification(s, r.entry[1]) ELSE s)
         IN  [rest EXCEPT !.failed = @ \/ r.err]

ExecSetEnv ==
    /\ pc = "env"
    /\ LET envVars == EnvVars(inst.name, inst.targetDir)
           r == SetEnvVars(DOMAIN envVars, envVars, shellFiles, rc, st)
       IN  /\ rc' = r.rc
           /\ st' = r.st
           /\ trace' = Append(trace, Step("env", ~r.failed))
    /\ pc' = "record"
    /\ UNCHANGED << rplan, idx, results, execErr, ledgerFile, shellFiles, runs, undoVars,
                    inst, ipc, tmpFile, expected, disk >>
    /\ UNCHANGED ExecFrame

\* st.AddInstallation and the append to results
ExecRecord ==
    /\ pc = "record"
    /\ st' = AddInstallation(st,
                [Runtime |-> rplan[idx].Name, Version |-> inst.version,
                 Path |-> inst.targetDir, Template |-> TemplateSlug,
                 Action |-> rplan[idx].Action,
                 PreviousVersion |-> rplan[idx].InstalledVersion,
                 PreviousPath |-> rplan[idx].InstalledPath])
    /\ results' = Append(results,
                [Runtime |-> rplan[idx].Name, Version |-> inst.version,
                 InstallPath |-> inst.targetDir,
                 BinDir |-> BinDir(inst.name, inst.targetDir)])
    /\ trace' = Append(trace, Step("record", TRUE))
    /\ inst' = NoInstall
    /\ idx' = idx + 1
    /\ pc' = "loop"
    /\ UNCHANGED << rplan, execErr, ledgerFile, rc, shellFiles, runs, undoVars,
                    ipc, tmpFile, expected, disk >>
    /\ UNCHANGED ExecFrame

\* after the loop: st.Save(), return results
ExecSave ==
    /\ pc = "save"
    /\ ledgerFile' = Save(st)
    /\ pc' = "returned"
    /\ UNCHANGED << rplan, idx, st, results, execErr, rc, shellFiles, runs, undoVars,
                    installVars >>
    /\ UNCHANGED ExecFrame

\* runSetupCommand after ExecutePlan returned: the command ends
SetupExit ==
    /\ pc = "returned"
    /\ pc' = "idle"
    /\ rplan' = << >>
    /\ idx' = 0
    /\ st' = NewState
    /\ results' = << >>
    /\ execErr' = FALSE
    /\ trace' = << >>
    /\ UNCHANGED << ledgerFile, rc, shellFiles, runs, undoVars,
                    inst, ipc, tmpFile, expected, disk >>
    /\ UNCHANGED ExecFrame

\* runUninstall: Load, the list is not empty, the user confirms; UndoAll copies it
StartUninstall ==
    /\ pc = "idle"
    /\ Len(Load(ledgerFile).Installations) > 0
    /\ st' = Load(ledgerFile)
    /\ snapshot' = Load(ledgerFile).Installations
    /\ ui' = 1
    /\ undone' = << >>
    /\ undoErrs' = << >>
    /\ lastUndo' = NoUndo
    /\ pc' = "undoall"
    /\ UNCHANGED << rplan, idx, results, execErr, ledgerFile, rc, shellFiles, runs,
                    installVars >>
    /\ UNCHANGED ExecFrame

\* An UndoAll whose loop ends at the first installation that cannot be undone
UndoAllStepStopOnError ==
    /\ pc = "undoall"
    /\ ui <= Len(snapshot)
    /\ \E removeOk \in BOOLEAN :
          LET i == snapshot[ui]
              r == UndoInstallation(st, disk, i.Runtime, i.Version, removeOk)
          IN  /\ st' = r.st
              /\ disk' = r.disk
              /\ undone' = IF r.err THEN undone ELSE Append(undone, r.result)
              /\ undoErrs' = IF r.err
                             THEN Append(undoErrs, [Runtime |-> i.Runtime,
                                                    Version |-> i.Version])
                             ELSE undoErrs
              /\ ui' = IF r.err THEN Len(snapshot) + 1 ELSE ui + 1
              /\ lastUndo' = [runtime |-> i.Runtime, version |-> i.Version,
                              err |-> r.err, result |-> r.result, before |-> st]
    /\ UNCHANGED << pc, rplan, idx, results, execErr, ledgerFile, rc, shellFiles, runs,
                    snapshot, inst, ipc, tmpFile, expected, trace >>
    /\ UNCHANGED ExecFrame

\* one iteration of UndoAll's loop
UndoAllStep ==
    /\ pc = "undoall"
    /\ ui <= Len(snapshot)
    /\ \E removeOk \in BOOLEAN :
          LET i == snapshot[ui]
              r == UndoInstallation(st, disk, i.Runtime, i.Version, removeOk)
          IN  /\ st' = r.st
              /\ disk' = r.disk
              /\ undone' = IF r.err THEN undone ELSE Append(undone, r.result)
              /\ undoErrs' = IF r.err
                             THEN Append(undoErrs, [Runtime |-> i.Runtime,
                                                    Version |-> i.Version])
                             ELSE undoErrs
              /\ lastUndo' = [runtime |-> i.Runtime, version |-> i.Version,
                              err |-> r.err, result |-> r.result, before |-> st]
    /\ ui' = ui + 1
    /\ UNCHANGED << pc, rplan, idx, results, execErr, ledgerFile, rc, shellFiles, runs,
                    snapshot, inst, ipc, tmpFile, expected, trace >>
    /\ UNCHANGED ExecFrame

\* runUninstall's loop over the results: RemoveFromPath and RemoveEnvVar
RECURSIVE RemoveEnvVars(_, _)
RemoveEnvVars(rcs, mods) ==
    IF mods = << >> THEN rcs
    ELSE RemoveEnvVars(removeEnvVarUnix(rcs, mods[1]), Tail(mods))

RECURSIVE ReverseAll(_, _)
ReverseAll(rcs, res) ==
    IF res = << >> THEN rcs
    ELSE LET r  == res[1]
             r1 == IF r.PathMod # << >> THEN removeFromPathUnix(rcs, r.PathMod[1]) ELSE rcs
         IN  ReverseAll(RemoveEnvVars(r1, r.EnvMods), Tail(res))

UninstallReverse ==
    /\ pc = "undoall"
    /\ ui > Len(snapshot)
    /\ rc' = ReverseAll(rc, undone)
    /\ pc' = "usave"
    /\ UNCHANGED << rplan, idx, st, results, execErr, ledgerFile, shellFiles, runs,
                    undoVars, installVars >>
    /\ UNCHANGED ExecFrame

\* runUninstall: st.Save()
UninstallSave ==
    /\ pc = "usave"
    /\ ledgerFile' = Save(st)
    /\ pc' = "uninstalled"
    /\ UNCHANGED << rplan, idx, st, results, execErr, rc, shellFiles, runs,
                    undoVars, installVars >>
    /\ UNCHANGED ExecFrame

\* the uninstall command ends
UninstallExit ==
    /\ pc = "uninstalled"
    /\ pc' = "idle"
    /\ st' = NewState
    /\ snapshot' = << >>
    /\ ui' = 0
    /\ undone' = << >>
    /\ undoErrs' = << >>
    /\ lastUndo' = NoUndo
    /\ UNCHANGED << rplan, idx, results, execErr, ledgerFile, rc, shellFiles, runs,
                    installVars >>
    /\ UNCHANGED ExecFrame

ExecNext ==
    \/ StartSetup
    \/ ExecLoop
    \/ ExecResolveFails
    \/ ExecResolve
    \/ InstallFetchMeta
    \/ InstallDownload
    \/ InstallFetchChecksum
    \/ InstallVerify
    \/ InstallExtract
    \/ ExecInstallFails
    \/ ExecAddToPath
    \/ ExecSetEnv
    \/ ExecRecord
    \/ ExecSave
    \/ SetupExit
    \/ StartUninstall
    \/ UndoAllStep
    \/ UninstallReverse
    \/ UninstallSave
    \/ UninstallExit

\* ------------------------------------------------------------------------
\* UndoInstallation on the ledgers that completed installations leave behind
\* ------------------------------------------------------------------------
UndoRuntimes == {"python", "go"}

UndoPairs == { << n, v >> : n \in UndoRuntimes, v \in ResolvableVersions }

\* what ExecutePlan's AddToPath, SetEnvVar and AddInstallation steps add for the
\* runtimes of done, in order, starting from ledger s and shell files rcs
RECURSIVE LedgerAfter(_, _, _, _)
LedgerAfter(done, files, rcs, s) ==
    IF done = << >> THEN s
    ELSE LET n   == done[1][1]
             dir == TargetDir(n, done[1][2])
             p   == addToPathUnix(files, rcs, BinDir(n, dir))
             s1  == IF p.entry # << >> THEN AddPathModification(s, p.entry[1]) ELSE s
             ev  == EnvVars(n, dir)
             e   == SetEnvVars(DOMAIN ev, ev, files, p.rc, s1)
             s2  == AddInstallation(e.st,
                       [Runtime |-> n, Version |-> done[1][2], Path |-> dir,
                        Template |-> TemplateSlug, Action |-> ActionInstall,
                        PreviousVersion |-> << >>, PreviousPath |-> << >>])
         IN  LedgerAfter(Tail(done), files, e.rc, s2)

\* the shell files after ExecutePlan's AddToPath and SetEnvVar steps for the
\* runtimes of done, in order
RECURSIVE RcAfter(_, _, _)
RcAfter(done, files, rcs) ==
    IF done = << >> THEN rcs
    ELSE LET n   == done[1][1]
             dir == TargetDir(n, done[1][2])
             p   == addToPathUnix(files, rcs, BinDir(n, dir))
             ev  == EnvVars(n, dir)
             e   == SetEnvVars(DOMAIN ev, ev, files, p.rc, NewState)
         IN  RcAfter(Tail(done), files, e.rc)

UndoInit ==
    /\ pc = "undo"
    /\ \E k \in 1..MaxLedger : \E done \in [1..k -> UndoPairs] :
          /\ st = LedgerAfter(done, << ".bashrc" >>, [f \in RcFiles |-> EmptyFile], NewState)
          /\ disk = { TargetDir(done[i][1], done[i][2]) : i \in 1..k }
    /\ lastUndo = NoUndo
    /\ rplan = << >>
    /\ idx = 0
    /\ results = << >>
    /\ execErr = FALSE
    /\ ledgerFile = NoFile
    /\ rc = [f \in RcFiles |-> EmptyFile]
    /\ shellFiles = << >>
    /\ runs = 0
    /\ snapshot = << >>
    /\ ui = 0
    /\ undone = << >>
    /\ undoErrs = << >>
    /\ inst = NoInstall
    /\ ipc = "idle"
    /\ tmpFile = << >>
    /\ expected = NoChecksum
    /\ trace = << >>

\* a call st.UndoInstallation(runtime, version)
UndoCall ==
    /\ pc = "undo"
    /\ \E p \in UndoPairs, removeOk \in BOOLEAN :
          LET r == UndoInstallation(st, disk, p[1], p[2], removeOk)
          IN  /\ st' = r.st
              /\ disk' = r.disk
              /\ lastUndo' = [runtime |-> p[1], version |-> p[2], err |-> r.err,
                              result |-> r.result, before |-> st]
    /\ UNCHANGED << pc, rplan, idx, results, execErr, ledgerFile, rc, shellFiles, runs,
                    snapshot, ui, undone, undoErrs, inst, ipc, tmpFile, expected, trace >>
    /\ UNCHANGED ExecFrame

\* the uninstall command on a host where earlier setup runs completed
UninstallInit ==
    /\ pc = "idle"
    /\ \E k \in 1..MaxLedger : \E done \in [1..k -> UndoPairs] :
       \E files \in ShellFileChoices :
          /\ ledgerFile = Save(LedgerAfter(done, files, [f \in RcFiles |-> EmptyFile],
                                           NewState))
          /\ rc = RcAfter(done, files, [f \in RcFiles |-> EmptyFile])
          /\ disk = { TargetDir(done[i][1], done[i][2]) : i \in 1..k }
          /\ shellFiles = files
    /\ st = NewState
    /\ lastUndo = NoUndo
    /\ rplan = << >>
    /\ idx = 0
    /\ results = << >>
    /\ execErr = FALSE
    /\ runs = MaxRuns
    /\ snapshot = << >>
    /\ ui = 0
    /\ undone = << >>
    /\ undoErrs = << >>
    /\ inst = NoInstall
    /\ ipc = "idle"
    /\ tmpFile = << >>
    /\ expected = NoChecksum
    /\ trace = << >>

UninstallNext ==
    \/ StartUninstall
    \/ UndoAllStep
    \/ UninstallReverse
    \/ UninstallSave
    \/ UninstallExit

\* ------------------------------------------------------------------------
\* The uninstall command on a host where shell files may be unreadable
\* ------------------------------------------------------------------------
PathWarning(m) == << "Warning: could not remove PATH entry " >> \o m.Value

EnvWarning(m) == << "Warning: could not remove ", m.Name >>

\* RemoveFromPath(entry) with its error: os.ReadFile or os.WriteFile fails on
\* the files of broken
removeFromPathErr(rcs, entry, broken) ==
    IF entry.File # "" /\ entry.File \in broken
    THEN [rc |-> rcs, err |-> TRUE]
    ELSE [rc |-> removeFromPathUnix(rcs, entry), err |-> FALSE]

removeEnvVarErr(rcs, entry, broken) ==
    IF entry.File # "" /\ entry.File \in broken
    THEN [rc |-> rcs, err |-> TRUE]
    ELSE [rc |-> removeEnvVarUnix(rcs, entry), err |-> FALSE]

\* the inner loop of runUninstall over result.EnvMods: files and stderr lines
RECURSIVE RemoveEnvVarsWarn(_, _, _, _)
RemoveEnvVarsWarn(rcs, mods, broken, warned) ==
    IF mods = << >> THEN [rc |-> rcs, out |-> warned]
    ELSE LET r == removeEnvVarErr(rcs, mods[1], broken)
         IN  RemoveEnvVarsWarn(r.rc, Tail(mods), broken,
                               IF r.err THEN Append(warned, EnvWarning(mods[1]))
                               ELSE warned)

\* runUninstall's loop over the results, a failed reversal only printing a warning
RECURSIVE ReverseAllWarn(_, _, _, _)
ReverseAllWarn(rcs, res, broken, warned) ==
    IF res = << >> THEN [rc |-> rcs, out |-> warned]
    ELSE LET r  == res[1]
             p  == IF r.PathMod # << >>
                   THEN removeFromPathErr(rcs, r.PathMod[1], broken)
                   ELSE [rc |-> rcs, err |-> FALSE]
             w  == IF p.err THEN Append(warned, PathWarning(r.PathMod[1])) ELSE warned
             e  == RemoveEnvVarsWarn(p.rc, r.EnvMods, broken, w)
         IN  ReverseAllWarn(e.rc, Tail(res), broken, e.out)

UninstallReverseWarn ==
    /\ pc = "undoall"
    /\ ui > Len(snapshot)
    /\ \E broken \in SUBSET RcFiles :
          LET r == ReverseAllWarn(rc, undone, broken, << >>)
          IN  /\ rc' = r.rc
              /\ out' = r.out
    /\ pc' = "usave"
    /\ UNCHANGED << rplan, idx, st, results, execErr, ledgerFile, shellFiles, runs,
                    undoVars, installVars >>
    /\ UNCHANGED << planVars, extractVars, serverVars, hostVars, opts, cmdsRun,
                    resolveVars, scanVars, tuiVars, hubVars >>

UninstallWarnNext ==
    \/ StartUninstall
    \/ UndoAllStep
    \/ UninstallReverseWarn
    \/ UninstallSave
    \/ UninstallExit

\* ------------------------------------------------------------------------
\* One setup run on a host where earlier setup runs completed
\* ------------------------------------------------------------------------
RunKeys == {"go", "rust"}

\* what the earlier runs installed
RunPairs == { << "go", << "1" >> >>, << "rust", Stable >> }

\* ScanRuntimes on that host: a runtime is not found, found on the system in a
\* version that does or does not satisfy the requirement, or found in the bin
\* directory of one of the earlier installations, too old for the requirement
RunDetections(name, done) ==
    { [Name |-> runtimeDetectNames(name), Installed |-> FALSE,
       Version |-> << >>, Path |-> << >>] }
    \cup { [Name |-> runtimeDetectNames(name), Installed |-> TRUE, Version |-> v,
            Path |-> SystemPath(name)] :
           v \in { << "1", ".", "0", ".", "2" >>, << "2", ".", "1", ".", "0" >> } }
    \cup { [Name |-> runtimeDetectNames(name), Installed |-> TRUE,
            Version |-> << "1", ".", "0", ".", "2" >>,
            Path |-> Join(BinDir(name, TargetDir(name, done[i][2])), << name >>)] :
           i \in { j \in DOMAIN done : done[j][1] = name } }

RunPlans(done) ==
    UNION { { BuildPlan([k \in ks |-> ExecRequirement], d, order) :
                d \in { x \in [{ runtimeDetectNames(k) : k \in ks } ->
                                UNION { RunDetections(k, done) : k \in ks }] :
                          \A n \in DOMAIN x : x[n].Name = n },
                order \in Perms(ks) } :
            ks \in { k \in SUBSET RunKeys : Cardinality(k) \in 1..MaxPlanLen } }

\* runSetupCommand has built a plan that needs action and ExecutePlan has loaded
\* the ledger; shellConfigFiles() may find no file at all
RunInit ==
    /\ pc = "loop"
    /\ shellFiles \in ShellFileChoices \cup { << >> }
    /\ \E k \in 0..(MaxLedger - 1) : \E done \in [1..k -> RunPairs] :
          /\ ledgerFile = IF k = 0 THEN NoFile
                          ELSE Save(LedgerAfter(done, shellFiles,
                                                [f \in RcFiles |-> EmptyFile], NewState))
          /\ rc = RcAfter(done, shellFiles, [f \in RcFiles |-> EmptyFile])
          /\ disk = { TargetDir(done[i][1], done[i][2]) : i \in 1..k }
          /\ rplan \in { p \in RunPlans(done) : NeedsAction(p) }
    /\ st = Load(ledgerFile)
    /\ idx = 1
    /\ results = << >>
    /\ execErr = FALSE
    /\ runs = MaxRuns
    /\ snapshot = << >>
    /\ ui = 0
    /\ undone = << >>
    /\ undoErrs = << >>
    /\ lastUndo = NoUndo
    /\ inst = NoInstall
    /\ ipc = "idle"
    /\ tmpFile = << >>
    /\ expected = NoChecksum
    /\ trace = << >>

RunNext ==
    \/ ExecLoop
    \/ ExecResolveFails
    \/ ExecResolve
    \/ InstallFetchMeta
    \/ InstallDownload
    \/ InstallVerify
    \/ InstallExtract
    \/ InstallChmod
    \/ InstallRunRustup
    \/ ExecInstallFails
    \/ ExecAddToPath
    \/ ExecSetEnv
    \/ ExecRecord
    \/ ExecSave
    \/ SetupExit

\* ------------------------------------------------------------------------
\* One setup run when reading or writing the ledger file may fail
\* ------------------------------------------------------------------------
\* ExecutePlan's state.Load() and its fallback: a file that exists but cannot be
\* read makes Load return an error, and ExecutePlan starts from NewState
LoadOrFresh(file, readOk) ==
    IF file.exists /\ ~readOk THEN NewState ELSE Load(file)

\* the file after os.WriteFile failed once the file was opened with O_TRUNC
TornFile == [exists |-> TRUE, state |-> Marshal(NewState), torn |-> TRUE]

SaveOutcomes == {"written", "not opened", "torn"}

\* st.Save() with the outcomes of os.MkdirAll and os.WriteFile
SaveOrFail(file, s, outcome) ==
    CASE outcome = "written"    -> Save(s)
      [] outcome = "not opened" -> file
      [] outcome = "torn"       -> TornFile

\* as RunInit, but the state.Load() at the head of ExecutePlan may have failed
RunLoadInit ==
    /\ pc = "loop"
    /\ shellFiles \in ShellFileChoices \cup { << >> }
    /\ \E k \in 0..(MaxLedger - 1) : \E done \in [1..k -> RunPairs] :
          /\ ledgerFile = IF k = 0 THEN NoFile
                          ELSE Save(LedgerAfter(done, shellFiles,
                                                [f \in RcFiles |-> EmptyFile], NewState))
          /\ rc = RcAfter(done, shellFiles, [f \in RcFiles |-> EmptyFile])
          /\ disk = { TargetDir(done[i][1], done[i][2]) : i \in 1..k }
          /\ rplan \in { p \in RunPlans(done) : NeedsAction(p) }
    /\ \E readOk \in BOOLEAN : st = LoadOrFresh(ledgerFile, readOk)
    /\ idx = 1
    /\ results = << >>
    /\ execErr = FALSE
    /\ runs = MaxRuns
    /\ snapshot = << >>
    /\ ui = 0
    /\ undone = << >>
    /\ undoErrs = << >>
    /\ lastUndo = NoUndo
    /\ inst = NoInstall
    /\ ipc = "idle"
    /\ tmpFile = << >>
    /\ expected = NoChecksum
    /\ trace = << >>

\* after the loop: st.Save(), whose error is only logged, return results
ExecSaveOrFail ==
    /\ pc = "save"
    /\ \E outcome \in SaveOutcomes : ledgerFile' = SaveOrFail(ledgerFile, st, outcome)
    /\ pc' = "returned"
    /\ UNCHANGED << rplan, idx, st, results, execErr, rc, shellFiles, runs, undoVars,
                    installVars >>
    /\ UNCHANGED ExecFrame

RunLoadNext ==
    \/ ExecLoop
    \/ ExecResolveFails
    \/ ExecResolve
    \/ InstallFetchMeta
    \/ InstallDownload
    \/ InstallVerify
    \/ InstallExtract
    \/ InstallChmod
    \/ InstallRunRustup
    \/ ExecInstallFails
    \/ ExecAddToPath
    \/ ExecSetEnv
    \/ ExecRecord
    \/ ExecSaveOrFail
    \/ SetupExit

\* ------------------------------------------------------------------------
\* The installers that are not implemented: Ruby, PHP and .NET
\* ------------------------------------------------------------------------
StubKeys == StubInstallers \cup RunKeys

\* plans over the stub runtimes and the implemented ones, built as RunPlans are
StubPlans(done) ==
    UNION { { BuildPlan([k \in ks |-> ExecRequirement], d, order) :
                d \in { x \in [{ runtimeDetectNames(k) : k \in ks } ->
                                UNION { RunDetections(k, done) : k \in ks }] :
                          \A n \in DOMAIN x : x[n].Name = n },
                order \in Perms(ks) } :
            ks \in { k \in SUBSET StubKeys : Cardinality(k) \in 1..MaxPlanLen } }

\* ExecutePlan entered with a plan that may name a stub runtime, on a host with
\* one shell configuration file
StubRunInit ==
    /\ pc = "loop"
    /\ shellFiles = << ".bashrc" >>
    /\ \E k \in 0..(MaxLedger - 1) : \E done \in [1..k -> RunPairs] :
          /\ ledgerFile = IF k = 0 THEN NoFile
                          ELSE Save(LedgerAfter(done, shellFiles,
                                                [f \in RcFiles |-> EmptyFile], NewState))
          /\ rc = RcAfter(done, shellFiles, [f \in RcFiles |-> EmptyFile])
          /\ disk = { TargetDir(done[i][1], done[i][2]) : i \in 1..k }
          /\ rplan \in { p \in StubPlans(done) : NeedsAction(p) }
    /\ st = Load(ledgerFile)
    /\ idx = 1
    /\ results = << >>
    /\ execErr = FALSE
    /\ runs = MaxRuns
    /\ snapshot = << >>
    /\ ui = 0
    /\ undone = << >>
    /\ undoErrs = << >>
    /\ lastUndo = NoUndo
    /\ inst = NoInstall
    /\ ipc = "idle"
    /\ tmpFile = << >>
    /\ expected = NoChecksum
    /\ trace = << >>

\* Install of a stub called on its own, with any version and target directory
StubInstallInit ==
    /\ ExecIdle
    /\ \E n \in StubInstallers, v \in ResolvableVersions :
          /\ inst = [name |-> n, version |-> v, targetDir |-> TargetDir(n, v)]
          /\ ipc = FirstStep(n)
    /\ tmpFile = << >>
    /\ expected = NoChecksum
    /\ trace = << >>
    /\ disk = {}

StubInit == StubRunInit \/ StubInstallInit

StubNext ==
    \/ InstallStub
    \/ ExecLoop
    \/ ExecResolveFails
    \/ ExecResolve
    \/ InstallFetchMeta
    \/ InstallDownload
    \/ InstallVerify
    \/ InstallExtract
    \/ InstallChmod
    \/ InstallRunRustup
    \/ ExecInstallFails
    \/ ExecAddToPath
    \/ ExecSetEnv
    \/ ExecRecord
    \/ ExecSave
    \/ SetupExit

\* ------------------------------------------------------------------------
\* A setup from the validation of the manifest to ExecutePlan's GetInstaller
\* ------------------------------------------------------------------------
validRuntimes == KnownRuntimes

\* runtime keys a manifest's [runtimes] table is given; a TOML key keeps its case
ValidateKeys == {"node", "Node", "go", "deno"}

\* strings.ToLower on those keys, which the model keeps as whole strings
ToLowerKey(name) == IF name = "Node" THEN "node" ELSE name

\* Validate, the [runtimes] loop: the keys it reports as unknown
Validate(runtimes) == { name \in DOMAIN runtimes : ToLowerKey(name) \notin validRuntimes }

ValidateManifests ==
    UNION { [ks -> {ExecRequirement}] :
            ks \in { k \in SUBSET ValidateKeys : Cardinality(k) \in 1..MaxManifestKeys } }

\* runSetupCommand has loaded a manifest
ValidateInit ==
    /\ manifestRuntimes \in ValidateManifests
    /\ detected \in ExecSnapshots
    /\ plan = << >>
    /\ planPc = "read"

\* runSetupCommand: manifest.Validate; any error ends the command
DoValidate ==
    /\ planPc = "read"
    /\ planPc' = IF Validate(manifestRuntimes) = {} THEN "loaded" ELSE "rejected"
    /\ UNCHANGED << manifestRuntimes, detected, plan >>
    /\ UNCHANGED PlanFrame

\* runSetupCommand: the plan needs action and ExecutePlan is entered with it
ExecStartPlan ==
    /\ planPc = "built"
    /\ pc = "off"
    /\ NeedsAction(plan)
    /\ rplan' = plan
    /\ st' = Load(ledgerFile)
    /\ idx' = 1
    /\ results' = << >>
    /\ execErr' = FALSE
    /\ trace' = << >>
    /\ pc' = "loop"
    /\ UNCHANGED << ledgerFile, rc, shellFiles, runs, undoVars, inst, ipc, tmpFile,
                    expected, disk >>
    /\ UNCHANGED ExecFrame

ValidatedNext ==
    \/ DoValidate
    \/ DoBuildPlan
    \/ ExecStartPlan
    \/ ExecLoop
    \/ ExecResolveFails
    \/ ExecResolve
    \/ InstallFetchMeta
    \/ InstallDownload
    \/ InstallFetchChecksum
    \/ InstallVerify
    \/ InstallExtract
    \/ ExecInstallFails
    \/ ExecAddToPath
    \/ ExecSetEnv
    \/ ExecRecord
    \/ ExecSave
    \/ SetupExit

\* ------------------------------------------------------------------------
\* The setup command: runSetupCommand from its flags to its exit
\* ------------------------------------------------------------------------
\* [packages] manager of a validated manifest: one that RunGlobalInstalls
\* supports and one that it does not
PkgManagers == {"npm", "cargo"}

GlobalSupported == {"npm", "pnpm", "yarn", "bun", "pip"}

Ran(kind, ok) == [cmd |-> kind, ok |-> ok]

\* packages.RunGlobalInstalls: every package is tried, a failure is logged,
\* the function returns nil
RunGlobalInstalls(manager, oks) ==
    [ran |-> IF Len(oks) = 0 \/ manager \notin GlobalSupported THEN << >>
             ELSE [i \in DOMAIN oks |-> Ran("global", oks[i])],
     err |-> FALSE]

\* packages.RunInstall: nothing to run when the install command is empty
RunInstall(hasCommand, ok) ==
    IF ~hasCommand THEN [ran |-> << >>, err |-> FALSE]
    ELSE [ran |-> << Ran("install", ok) >>, err |-> ~ok]

\* packages.RunPostSetup: the commands run in order up to the first failure
FirstFailure(oks) ==
    IF \E i \in DOMAIN oks : ~oks[i]
    THEN CHOOSE i \in DOMAIN oks : ~oks[i] /\ \A j \in 1..(i - 1) : oks[j]
    ELSE 0

RunPostSetup(oks) ==
    LET f == FirstFailure(oks)
        n == IF f = 0 THEN Len(oks) ELSE f
    IN  [ran |-> [i \in 1..n |-> Ran("post", oks[i])], err |-> f # 0]

\* what the user may type at "Proceed with installation? [y/N]"; << >> is
\* the end of input
Answers ==
    { << "y", "\n" >>, << "Y", "E", "S", "\n" >>, << " ", "y", "e", "s", "\n" >>,
      << "n", "\n" >>, << "\n" >>, << "y", "e", "\n" >>, << >> }

\* strings.TrimSpace(strings.ToLower(answer)) is "y" or "yes"
Accepts(answer) ==
    TrimSpace(ToLower(answer)) \in { << "y" >>, << "y", "e", "s" >> }

CmdIdle ==
    /\ opts = [dryRun |-> FALSE, yes |-> FALSE, tty |-> FALSE]
    /\ cmdsRun = << >>
    /\ out = << >>

\* the manifest is loaded and validated and BuildPlan has returned, on a host
\* with one shell configuration file where earlier setup runs may have completed
CmdInit ==
    /\ pc = "cmd"
    /\ opts \in [dryRun : BOOLEAN, yes : BOOLEAN, tty : BOOLEAN]
    /\ cmdsRun = << >>
    /\ out = << >>
    /\ shellFiles = << ".bashrc" >>
    /\ \E k \in 0..(MaxLedger - 1) : \E done \in [1..k -> RunPairs] :
          /\ ledgerFile = IF k = 0 THEN NoFile
                          ELSE Save(LedgerAfter(done, shellFiles,
                                                [f \in RcFiles |-> EmptyFile], NewState))
          /\ rc = RcAfter(done, shellFiles, [f \in RcFiles |-> EmptyFile])
          /\ disk = { TargetDir(done[i][1], done[i][2]) : i \in 1..k }
          /\ rplan \in RunPlans(done)
    /\ st = NewState
    /\ idx = 0
    /\ results = << >>
    /\ execErr = FALSE
    /\ runs = MaxRuns
    /\ snapshot = << >>
    /\ ui = 0
    /\ undone = << >>
    /\ undoErrs = << >>
    /\ lastUndo = NoUndo
    /\ inst = NoInstall
    /\ ipc = "idle"
    /\ tmpFile = << >>
    /\ expected = NoChecksum
    /\ trace = << >>

\* A command that looks at --dry-run only after the plan has been executed
CmdSummaryNoDryRun ==
    /\ pc = "cmd"
    /\ opts.dryRun \/ ~opts.tty
    /\ IF ~NeedsAction(rplan)
       THEN /\ out' = out \o << << "summary" >>, << "nothing to install" >> >>
            /\ pc' = "exit0"
       ELSE /\ out' = Append(out, << "summary" >>)
            /\ pc' = "confirm"
    /\ UNCHANGED << opts, cmdsRun, rplan, idx, st, results, execErr, ledgerFile, rc,
                    shellFiles, runs, undoVars, installVars >>
    /\ UNCHANGED CmdFrame

\* PrintSummary, then the returns for --dry-run and for a plan without action;
\* without --dry-run this is the plain-text command, taken when stdin is not a
\* terminal
CmdSummary ==
    /\ pc = "cmd"
    /\ opts.dryRun \/ ~opts.tty
    /\ IF opts.dryRun
       THEN /\ out' = out \o << << "summary" >>, << "dry run" >> >>
            /\ pc' = "exit0"
       ELSE IF ~NeedsAction(rplan)
       THEN /\ out' = out \o << << "summary" >>, << "nothing to install" >> >>
            /\ pc' = "exit0"
       ELSE /\ out' = Append(out, << "summary" >>)
            /\ pc' = "confirm"
    /\ UNCHANGED << opts, cmdsRun, rplan, idx, st, results, execErr, ledgerFile, rc,
                    shellFiles, runs, undoVars, installVars >>
    /\ UNCHANGED CmdFrame

\* A command that starts the installation whatever the answer is
CmdConfirmAnyAnswer ==
    /\ pc = "confirm"
    /\ \E answer \in Answers :
          /\ out' = (IF opts.yes THEN out ELSE out \o << << "proceed?" >>, << "typed" >> \o answer >>)
                    \o << << "starting" >> >>
          /\ st' = Load(ledgerFile)
    /\ idx' = 1
    /\ pc' = "loop"
    /\ UNCHANGED << opts, cmdsRun, rplan, results, execErr, ledgerFile, rc,
                    shellFiles, runs, undoVars, installVars >>
    /\ UNCHANGED CmdFrame

\* the confirmation prompt unless --yes, then the call of ExecutePlan and its
\* state.Load()
CmdConfirm ==
    /\ pc = "confirm"
    /\ IF opts.yes
       THEN /\ out' = Append(out, << "starting" >>)
            /\ st' = Load(ledgerFile)
            /\ idx' = 1
            /\ pc' = "loop"
       ELSE \E answer \in Answers :
              IF Accepts(answer)
              THEN /\ out' = out \o << << "proceed?" >>, << "typed" >> \o answer, << "starting" >> >>
                   /\ st' = Load(ledgerFile)
                   /\ idx' = 1
                   /\ pc' = "loop"
              ELSE /\ out' = out \o << << "proceed?" >>, << "typed" >> \o answer, << "cancelled" >> >>
                   /\ pc' = "exit0"
                   /\ UNCHANGED << st, idx >>
    /\ UNCHANGED << opts, cmdsRun, rplan, results, execErr, ledgerFile, rc,
                    shellFiles, runs, undoVars, installVars >>
    /\ UNCHANGED CmdFrame

\* ExecutePlan returned: an error ends the command with os.Exit(1)
CmdExecuted ==
    /\ pc = "returned"
    /\ ~opts.tty
    /\ IF execErr
       THEN out' = Append(out, << "error" >>) /\ pc' = "exit1"
       ELSE out' = out /\ pc' = "global"
    /\ UNCHANGED << opts, cmdsRun, rplan, idx, st, results, execErr, ledgerFile, rc,
                    shellFiles, runs, undoVars, installVars >>
    /\ UNCHANGED CmdFrame

\* packages.RunGlobalInstalls(m, log)
CmdGlobalInstalls ==
    /\ pc = "global"
    /\ \E manager \in PkgManagers, n \in 0..MaxPkgCmds : \E oks \in [1..n -> BOOLEAN] :
          LET r == RunGlobalInstalls(manager, oks)
          IN  /\ cmdsRun' = cmdsRun \o r.ran
              /\ out' = IF r.err THEN Append(out, << "warning" >>) ELSE out
    /\ pc' = "packages"
    /\ UNCHANGED << opts, rplan, idx, st, results, execErr, ledgerFile, rc,
                    shellFiles, runs, undoVars, installVars >>
    /\ UNCHANGED CmdFrame

\* A command that exits with an error when the package install command fails
CmdRunInstallFatal ==
    /\ pc = "packages"
    /\ \E hasCommand \in BOOLEAN, ok \in BOOLEAN :
          LET r == RunInstall(hasCommand, ok)
          IN  /\ cmdsRun' = cmdsRun \o r.ran
              /\ out' = IF r.err THEN Append(out, << "error" >>)
                        ELSE Append(out, << "installation complete" >>)
              /\ pc' = IF r.err THEN "exit1" ELSE "post"
    /\ UNCHANGED << opts, rplan, idx, st, results, execErr, ledgerFile, rc,
                    shellFiles, runs, undoVars, installVars >>
    /\ UNCHANGED CmdFrame

\* packages.RunInstall(m, log) when an install command is given, then the
\* "Installation complete!" summary
CmdRunInstall ==
    /\ pc = "packages"
    /\ \E hasCommand \in BOOLEAN, ok \in BOOLEAN :
          LET r == RunInstall(hasCommand, ok)
          IN  /\ cmdsRun' = cmdsRun \o r.ran
              /\ out' = (IF r.err THEN Append(out, << "warning" >>) ELSE out)
                        \o << << "installation complete" >> >>
    /\ pc' = "post"
    /\ UNCHANGED << opts, rplan, idx, st, results, execErr, ledgerFile, rc,
                    shellFiles, runs, undoVars, installVars >>
    /\ UNCHANGED CmdFrame

\* packages.RunPostSetup(m, log) when there are commands, then the normal return
CmdPostSetup ==
    /\ pc = "post"
    /\ \E n \in 0..MaxPkgCmds : \E oks \in [1..n -> BOOLEAN] :
          LET r == RunPostSetup(oks)
          IN  /\ cmdsRun' = cmdsRun \o r.ran
              /\ out' = IF r.err THEN Append(out, << "warning" >>) ELSE out
    /\ pc' = "exit0"
    /\ UNCHANGED << opts, rplan, idx, st, results, execErr, ledgerFile, rc,
                    shellFiles, runs, undoVars, installVars >>
    /\ UNCHANGED CmdFrame

\* The terminal interface (package tui).  Each runtime's installation is the
\* sequence of steps ExecutePlan performs for it; the configure form and the
\* final screen are one position, "tui-end".
Keys == {"y", "Y", "n", "N", "esc", "q", "ctrl+c", "enter"}

\* tui.New(plan, log, yesFlag) and Model.Init()
TuiNew ==
    /\ pc = "cmd"
    /\ ~opts.dryRun /\ opts.tty
    /\ IF ~NeedsAction(rplan)
       THEN /\ pc' = "tui-end"
            /\ UNCHANGED << out, st, idx >>
       ELSE IF opts.yes
       THEN /\ out' = Append(out, << "starting" >>)
            /\ st' = Load(ledgerFile)
            /\ idx' = 1
            /\ pc' = "loop"
       ELSE /\ out' = Append(out, << "summary" >>)
            /\ pc' = "tui-summary"
            /\ UNCHANGED << st, idx >>
    /\ UNCHANGED << opts, cmdsRun, rplan, results, execErr, ledgerFile, rc,
                    shellFiles, runs, undoVars, installVars >>
    /\ UNCHANGED CmdFrame

\* A terminal interface that starts the installation on any key at the prompt
TuiKeyAnyKeyInstalls ==
    /\ pc \in {"tui-summary", "tui-confirm", "tui-end"}
    /\ \E key \in Keys :
          IF pc = "tui-confirm"
          THEN /\ out' = out \o << << "key", key >>, << "starting" >> >>
               /\ st' = Load(ledgerFile)
               /\ idx' = 1
               /\ pc' = "loop"
          ELSE IF pc = "tui-summary"
          THEN /\ out' = Append(out, << "proceed?" >>)
               /\ pc' = "tui-confirm"
               /\ UNCHANGED << st, idx >>
          ELSE /\ pc' = "exit0"
               /\ UNCHANGED << out, st, idx >>
    /\ UNCHANGED << opts, cmdsRun, rplan, results, execErr, ledgerFile, rc,
                    shellFiles, runs, undoVars, installVars >>
    /\ UNCHANGED CmdFrame

\* Model.Update for a tea.KeyMsg in the summary, confirm and final phases;
\* tea.Quit ends the program.  out keeps the keys that answer the prompt; a
\* key the confirm phase ignores changes nothing.
TuiKey ==
    /\ pc \in {"tui-summary", "tui-confirm", "tui-end"}
    /\ \E key \in Keys :
          IF key \in {"ctrl+c", "q"}
          THEN /\ out' = IF pc = "tui-confirm" THEN Append(out, << "key", key >>)
                         ELSE out
               /\ pc' = "exit0"
               /\ UNCHANGED << st, idx >>
          ELSE IF pc = "tui-summary"
          THEN /\ out' = Append(out, << "proceed?" >>)
               /\ pc' = "tui-confirm"
               /\ UNCHANGED << st, idx >>
          ELSE IF pc = "tui-confirm" /\ key \in {"y", "Y"}
          THEN /\ out' = out \o << << "key", key >>, << "starting" >> >>
               /\ st' = Load(ledgerFile)
               /\ idx' = 1
               /\ pc' = "loop"
          ELSE IF pc = "tui-confirm" /\ key \in {"n", "N", "esc"}
          THEN /\ out' = Append(out, << "key", key >>)
               /\ pc' = "exit0"
               /\ UNCHANGED << st, idx >>
          ELSE IF pc = "tui-confirm"
          THEN UNCHANGED << out, pc, st, idx >>
          ELSE /\ pc' = "exit0"
               /\ UNCHANGED << out, st, idx >>
    /\ UNCHANGED << opts, cmdsRun, rplan, results, execErr, ledgerFile, rc,
                    shellFiles, runs, undoVars, installVars >>
    /\ UNCHANGED CmdFrame

\* Model.Update for runtimeFailedMsg: the error is shown on the final screen
TuiRuntimeFailed ==
    /\ pc = "returned"
    /\ opts.tty
    /\ execErr
    /\ out' = Append(out, << "error" >>)
    /\ pc' = "tui-end"
    /\ UNCHANGED << opts, cmdsRun, rplan, idx, st, results, execErr, ledgerFile, rc,
                    shellFiles, runs, undoVars, installVars >>
    /\ UNCHANGED CmdFrame

\* runPackagesCmd after the last runtime, and Model.Update for packagesDoneMsg
TuiRunPackages ==
    /\ pc = "returned"
    /\ opts.tty
    /\ ~execErr
    /\ \E manager \in PkgManagers, n \in 0..MaxPkgCmds, hasCommand \in BOOLEAN,
          ok \in BOOLEAN, m \in 0..MaxPkgCmds :
          \E oks \in [1..n -> BOOLEAN], poks \in [1..m -> BOOLEAN] :
             LET g == RunGlobalInstalls(manager, oks)
                 r == RunInstall(hasCommand, ok)
                 q == RunPostSetup(poks)
             IN  /\ cmdsRun' = cmdsRun \o g.ran \o r.ran \o q.ran
                 /\ out' = IF g.err \/ r.err \/ q.err
                           THEN Append(out, << "warning" >>) ELSE out
    /\ pc' = "tui-end"
    /\ UNCHANGED << opts, rplan, idx, st, results, execErr, ledgerFile, rc,
                    shellFiles, runs, undoVars, installVars >>
    /\ UNCHANGED CmdFrame

CmdNext ==
    \/ CmdSummary
    \/ CmdConfirm
    \/ TuiNew
    \/ TuiKey
    \/ TuiRuntimeFailed
    \/ TuiRunPackages
    \/ ExecLoop
    \/ ExecResolveFails
    \/ ExecResolve
    \/ InstallFetchMeta
    \/ InstallDownload
    \/ InstallVerify
    \/ InstallExtract
    \/ InstallChmod
    \/ InstallRunRustup
    \/ ExecInstallFails
    \/ ExecAddToPath
    \/ ExecSetEnv
    \/ ExecRecord
    \/ ExecSave
    \/ CmdExecuted
    \/ CmdGlobalInstalls
    \/ CmdRunInstall
    \/ CmdPostSetup

\* ------------------------------------------------------------------------
\* The mutator alone: calls of its four functions on one host, with the ledger's
\* modification records kept as ExecutePlan and the uninstall command keep them
\* ------------------------------------------------------------------------
\* the directories and variables the calls are about: bin directories of two
\* versions of one runtime, one a prefix of the other as text
EnvBinDirs(os) ==
    IF os = "windows"
    THEN { << "a", ":\\rt\\go\\", "1", "\\bin" >>,
           << "a", ":\\rt\\go\\", "1", "0", "\\bin" >> }
    ELSE { BinDir("go", TargetDir("go", v)) : v \in ResolvableVersions }

EnvValues(name) ==
    IF name = "GOROOT" THEN { TargetDir("go", v) : v \in ResolvableVersions }
    ELSE { TargetDir("java", << "1" >>) }

\* what the user's own shell files and user PATH hold before the first call
UserContents == { EmptyFile, << << "alias ll=ls" >>, << >> >> }

UserPaths ==
    { << >>,
      << << "b", ":\\tools" >> >>,
      << << " ", "A", ":\\rt\\go\\", "1", "\\bin" >>, << "b", ":\\tools" >> >> }

EnvInit ==
    /\ pc = "env"
    /\ goos \in {"linux", "windows"}
    /\ IF goos = "windows"
       THEN /\ shellFiles = << >>
            /\ rc = [f \in RcFiles |-> EmptyFile]
            /\ \E up \in UserPaths : userEnv = [NoUserEnv EXCEPT !.Path = up]
       ELSE /\ shellFiles \in ShellFileChoices
            /\ rc \in [RcFiles -> UserContents]
            /\ userEnv = NoUserEnv
    /\ envCall = NoEnvCall
    /\ st = NewState
    /\ ledgerFile = NoFile
    /\ disk = {}
    /\ lastUndo = NoUndo
    /\ rplan = << >>
    /\ idx = 0
    /\ results = << >>
    /\ execErr = FALSE
    /\ runs = 0
    /\ snapshot = << >>
    /\ ui = 0
    /\ undone = << >>
    /\ undoErrs = << >>
    /\ inst = NoInstall
    /\ ipc = "idle"
    /\ tmpFile = << >>
    /\ expected = NoChecksum
    /\ trace = << >>

\* install.AddToPath(binDir), and AddPathModification when an entry is returned
EnvAddToPath ==
    /\ pc = "env"
    /\ envCall.n < MaxEnvCalls
    /\ \E dir \in EnvBinDirs(goos) :
          LET r == AddToPath(goos, shellFiles, rc, userEnv, dir, TRUE, TRUE)
          IN  /\ rc' = r.rc
              /\ userEnv' = r.env
              /\ st' = IF r.entry # << >> THEN AddPathModification(st, r.entry[1])
                       ELSE st
              /\ envCall' = [n |-> envCall.n + 1, op |-> "AddToPath", arg |-> dir,
                             ret |-> r.entry, err |-> r.err]
    /\ UNCHANGED << pc, rplan, idx, results, execErr, ledgerFile, shellFiles, runs,
                    undoVars, installVars, goos >>
    /\ UNCHANGED EnvFrame

\* install.SetEnvVar(name, value), and AddEnvModification when an entry is returned
EnvSetEnvVar ==
    /\ pc = "env"
    /\ envCall.n < MaxEnvCalls
    /\ \E name \in EnvNames : \E value \in EnvValues(name) :
          LET r == SetEnvVar(goos, shellFiles, rc, userEnv, name, value, TRUE)
          IN  /\ rc' = r.rc
              /\ userEnv' = r.env
              /\ st' = IF r.entry # << >> THEN AddEnvModification(st, r.entry[1])
                       ELSE st
              /\ envCall' = [n |-> envCall.n + 1, op |-> "SetEnvVar",
                             arg |-> << name, value >>, ret |-> r.entry, err |-> r.err]
    /\ UNCHANGED << pc, rplan, idx, results, execErr, ledgerFile, shellFiles, runs,
                    undoVars, installVars, goos >>
    /\ UNCHANGED EnvFrame

\* install.RemoveFromPath(entry) for a path modification of the ledger, which
\* the undo has taken out of the ledger
EnvRemoveFromPath ==
    /\ pc = "env"
    /\ envCall.n < MaxEnvCalls
    /\ \E i \in DOMAIN st.PathModifications :
          LET entry == st.PathModifications[i]
              r == RemoveFromPath(goos, rc, userEnv, entry, TRUE, TRUE)
          IN  /\ rc' = r.rc
              /\ userEnv' = r.env
              /\ st' = RemovePathModification(st, entry.Value)
              /\ envCall' = [n |-> envCall.n + 1, op |-> "RemoveFromPath",
                             arg |-> << entry >>, ret |-> << >>, err |-> FALSE]
    /\ UNCHANGED << pc, rplan, idx, results, execErr, ledgerFile, shellFiles, runs,
                    undoVars, installVars, goos >>
    /\ UNCHANGED EnvFrame

\* install.RemoveEnvVar(entry) for an env modification of the ledger
EnvRemoveEnvVar ==
    /\ pc = "env"
    /\ envCall.n < MaxEnvCalls
    /\ \E i \in DOMAIN st.EnvModifications :
          LET entry == st.EnvModifications[i]
              r == RemoveEnvVar(goos, rc, userEnv, entry, TRUE)
          IN  /\ rc' = r.rc
              /\ userEnv' = r.env
              /\ st' = RemoveEnvModification(st, entry.Name)
              /\ envCall' = [n |-> envCall.n + 1, op |-> "RemoveEnvVar",
                             arg |-> << entry >>, ret |-> << >>, err |-> FALSE]
    /\ UNCHANGED << pc, rplan, idx, results, execErr, ledgerFile, shellFiles, runs,
                    undoVars, installVars, goos >>
    /\ UNCHANGED EnvFrame

EnvNext ==
    \/ EnvAddToPath
    \/ EnvSetEnvVar
    \/ EnvRemoveFromPath
    \/ EnvRemoveEnvVar

\* ------------------------------------------------------------------------
\* The ledger alone: records added and removed in memory, Save and Load
\* ------------------------------------------------------------------------
\* records of upgrades, as ExecutePlan adds them for a runtime found on the system
UpgradeRecords ==
    { [Runtime |-> n, Version |-> v, Path |-> TargetDir(n, v),
       Template |-> t, Action |-> ActionUpgrade,
       PreviousVersion |-> << "1", ".", "0", ".", "2" >>,
       PreviousPath |-> SystemPath(n)] :
      n \in UndoRuntimes, v \in {<< "1", "0" >>}, t \in {TemplateSlug, ""} }

LedgerInit ==
    /\ pc = "start"
    /\ st = NewState
    /\ ledgerFile = NoFile
    /\ disk = {}
    /\ lastUndo = NoUndo
    /\ rplan = << >>
    /\ idx = 0
    /\ results = << >>
    /\ execErr = FALSE
    /\ rc = [f \in RcFiles |-> EmptyFile]
    /\ shellFiles \in ShellFileChoices
    /\ runs = 0
    /\ snapshot = << >>
    /\ ui = 0
    /\ undone = << >>
    /\ undoErrs = << >>
    /\ inst = NoInstall
    /\ ipc = "idle"
    /\ tmpFile = << >>
    /\ expected = NoChecksum
    /\ trace = << >>

\* the records of one installed runtime are added in memory
LedgerRecord ==
    /\ pc = "ledger"
    /\ Len(st.Installations) < MaxLedger
    /\ \/ \E p \in UndoPairs :
             st' = LedgerAfter(<< p >>, shellFiles, [f \in RcFiles |-> EmptyFile], st)
       \/ \E r \in UpgradeRecords : st' = AddInstallation(st, r)
    /\ UNCHANGED << pc, rplan, idx, results, execErr, ledgerFile, rc, shellFiles, runs,
                    undoVars, installVars >>
    /\ UNCHANGED ExecFrame

\* the records of one installation are removed in memory
LedgerUndo ==
    /\ pc = "ledger"
    /\ \E i \in Range(st.Installations) :
          st' = UndoInstallation(st, disk, i.Runtime, i.Version, TRUE).st
    /\ UNCHANGED << pc, rplan, idx, results, execErr, ledgerFile, rc, shellFiles, runs,
                    undoVars, installVars >>
    /\ UNCHANGED ExecFrame

\* st.Save()
LedgerSave ==
    /\ pc = "ledger"
    /\ ledgerFile' = Save(st)
    /\ pc' = "saved"
    /\ UNCHANGED << rplan, idx, st, results, execErr, rc, shellFiles, runs,
                    undoVars, installVars >>
    /\ UNCHANGED ExecFrame

\* state.Load()
LedgerLoad ==
    /\ pc \in {"start", "saved"}
    /\ st' = Load(ledgerFile)
    /\ pc' = IF pc = "start" THEN "ledger" ELSE "loaded"
    /\ UNCHANGED << rplan, idx, results, execErr, ledgerFile, rc, shellFiles, runs,
                    undoVars, installVars >>
    /\ UNCHANGED ExecFrame

LedgerNext ==
    \/ LedgerRecord
    \/ LedgerUndo
    \/ LedgerSave
    \/ LedgerLoad

\* ------------------------------------------------------------------------
\* Archive extraction (ExtractTarGz, ExtractZip)
\* ------------------------------------------------------------------------
\* Paths are token sequences in which "/" is the separator token, so that
\* strings.HasPrefix on two paths is HasPrefix on their tokens.
Sep == "/"

\* the elements of a path between separators
RECURSIVE PathElems(_)
PathElems(p) ==
    IF p = << >> THEN << << >> >>
    ELSE LET rest == PathElems(Tail(p))
         IN  IF Head(p) = Sep THEN << << >> >> \o rest
             ELSE << << Head(p) >> \o rest[1] >> \o Tail(rest)

\* lexical elimination of empty, "." and ".." elements of a rooted path
RECURSIVE CleanElems(_, _)
CleanElems(elems, acc) ==
    IF elems = << >> THEN acc
    ELSE LET e == Head(elems)
         IN  IF e = << >> \/ e = << "." >> THEN CleanElems(Tail(elems), acc)
             ELSE IF e = << ".." >>
                  THEN CleanElems(Tail(elems),
                                  IF acc = << >> THEN acc
                                  ELSE SubSeq(acc, 1, Len(acc) - 1))
                  ELSE CleanElems(Tail(elems), Append(acc, e))

RECURSIVE FromElems(_)
FromElems(es) ==
    IF es = << >> THEN << >> ELSE << Sep >> \o Head(es) \o FromElems(Tail(es))

Rooted(es) == IF es = << >> THEN << Sep >> ELSE FromElems(es)

\* filepath.Clean, filepath.Join and filepath.Dir on rooted paths
Clean(p) == Rooted(CleanElems(PathElems(p), << >>))

FilepathJoin(a, b) == Clean(a \o << Sep >> \o b)

Dir(p) ==
    LET es == CleanElems(PathElems(p), << >>)
    IN  IF Len(es) <= 1 THEN << Sep >> ELSE FromElems(SubSeq(es, 1, Len(es) - 1))

Base(p) ==
    LET es == CleanElems(PathElems(p), << >>)
    IN  IF es = << >> THEN << >> ELSE es[Len(es)]

\* the directory extraction writes into and the directories around it
DestDir == << Sep, "r", Sep, "x" >>

HostDirs == { << Sep >>, << Sep, "r" >> }

\* p is destDir or lies below it
Inside(p, dest) == p = dest \/ HasPrefix(p, dest \o << Sep >>)

Node(path, kind, to) == [path |-> path, kind |-> kind, to |-> to]

KindAt(fs, rp) ==
    IF rp \in HostDirs THEN "dir"
    ELSE IF \E n \in fs : n.path = rp THEN (CHOOSE n \in fs : n.path = rp).kind
    ELSE "none"

\* the location a path names once the symbolic links on it are followed
RECURSIVE RealFrom(_, _, _)
RealFrom(fs, cur, elems) ==
    IF elems = << >> THEN cur
    ELSE LET nxt == cur \o << Sep >> \o Head(elems)
         IN  IF KindAt(fs, nxt) = "link"
             THEN LET to == (CHOOSE n \in fs : n.path = nxt).to
                  IN  RealFrom(fs, IF to = << Sep >> THEN << >> ELSE to, Tail(elems))
             ELSE RealFrom(fs, nxt, Tail(elems))

RealPath(fs, p) ==
    LET r == RealFrom(fs, << >>, CleanElems(PathElems(p), << >>))
    IN  IF r = << >> THEN << Sep >> ELSE r

\* os.MkdirAll
MkdirAll(fs, p) ==
    LET es   == CleanElems(PathElems(RealPath(fs, p)), << >>)
        pre  == { FromElems(SubSeq(es, 1, k)) : k \in 1..Len(es) }
        bad  == \E q \in pre : KindAt(fs, q) = "file"
    IN  [err |-> bad,
         fs  |-> IF bad THEN fs
                 ELSE fs \cup { Node(q, "dir", << >>) : q \in { x \in pre : KindAt(fs, x) = "none" } }]

\* os.OpenFile(target, O_CREATE|O_WRONLY|O_TRUNC) followed by io.Copy
WriteFile(fs, p) ==
    LET rp == RealPath(fs, p)
    IN  IF KindAt(fs, rp) = "dir" THEN [err |-> TRUE, fs |-> fs]
        ELSE [err |-> FALSE, fs |-> fs \cup { Node(rp, "file", << >>) }]

\* os.Remove(target) with its error dropped, then os.Symlink(linkname, target)
Symlink(fs, linkname, p) ==
    LET dir  == RealPath(fs, Dir(p))
        lp   == (IF dir = << Sep >> THEN << >> ELSE dir) \o << Sep >> \o Base(p)
        kids == \E n \in fs : HasPrefix(n.path, lp \o << Sep >>)
        fs1  == IF KindAt(fs, lp) \in {"file", "link"} \/ (KindAt(fs, lp) = "dir" /\ ~kids)
                THEN { n \in fs : n.path # lp } ELSE fs
        to   == IF linkname # << >> /\ linkname[1] = Sep THEN Clean(linkname)
                ELSE FilepathJoin(Dir(lp), linkname)
    IN  IF KindAt(fs1, lp) # "none" THEN [err |-> TRUE, fs |-> fs1]
        ELSE [err |-> FALSE, fs |-> fs1 \cup { Node(lp, "link", to) }]

Entry(name, type, linkname) == [name |-> name, type |-> type, linkname |-> linkname]

FileAndDirEntries ==
    { Entry(<< "a" >>, "file", << >>),
      Entry(<< "s" >>, "dir", << >>),
      Entry(<< "s", Sep, "a" >>, "file", << >>),
      Entry(<< "..", Sep, "e" >>, "file", << >>),
      Entry(<< "..", Sep, "x", "2", Sep, "e" >>, "file", << >>),
      Entry(<< "l", Sep, "e" >>, "file", << >>) }

SymlinkEntries == { Entry(<< "l" >>, "symlink", << ".." >>) }

ArchivesOf(entries) == UNION { [1..k -> entries] : k \in 1..MaxEntries }

ExtractInit ==
    /\ \/ format = "tar.gz" /\ archive \in ArchivesOf(FileAndDirEntries \cup SymlinkEntries)
       \/ format = "zip" /\ archive \in ArchivesOf(FileAndDirEntries)
    /\ ei = 1
    /\ xpc = "run"
    /\ xfs = { Node(DestDir, "dir", << >>) }

ExtractIdle ==
    /\ archive = << >>
    /\ format = "none"
    /\ ei = 0
    /\ xpc = "idle"
    /\ xfs = {}

\* the traversal check both extractors apply to an entry's target
InvalidPath(target, destDir) == ~HasPrefix(Clean(target), Clean(destDir))

\* one iteration of ExtractTarGz's loop
ExtractTarEntry ==
    /\ xpc = "run"
    /\ format = "tar.gz"
    /\ ei <= Len(archive)
    /\ LET hdr    == archive[ei]
           target == FilepathJoin(DestDir, hdr.name)
           mk     == MkdirAll(xfs, IF hdr.type = "dir" THEN target ELSE Dir(target))
           r      == IF mk.err \/ hdr.type = "dir" THEN mk
                     ELSE IF hdr.type = "file" THEN WriteFile(mk.fs, target)
                     ELSE Symlink(mk.fs, hdr.linkname, target)
       IN  IF InvalidPath(target, DestDir)
           THEN xpc' = "err" /\ UNCHANGED << xfs, ei >>
           ELSE /\ xfs' = r.fs
                /\ xpc' = IF r.err THEN "err" ELSE xpc
                /\ ei' = IF r.err THEN ei ELSE ei + 1
    /\ UNCHANGED << archive, format >>
    /\ UNCHANGED ExtractFrame

\* one iteration of ExtractZip's loop
ExtractZipEntry ==
    /\ xpc = "run"
    /\ format = "zip"
    /\ ei <= Len(archive)
    /\ LET f      == archive[ei]
           target == FilepathJoin(DestDir, f.name)
           mk     == MkdirAll(xfs, IF f.type = "dir" THEN target ELSE Dir(target))
           r      == IF mk.err \/ f.type = "dir" THEN mk ELSE WriteFile(mk.fs, target)
       IN  IF InvalidPath(target, DestDir)
           THEN xpc' = "err" /\ UNCHANGED << xfs, ei >>
           ELSE /\ xfs' = r.fs
                /\ xpc' = IF r.err /\ f.type # "dir" THEN "err" ELSE xpc
                /\ ei' = IF r.err /\ f.type # "dir" THEN ei ELSE ei + 1
    /\ UNCHANGED << archive, format >>
    /\ UNCHANGED ExtractFrame

\* the end of the archive: the extractor returns nil
ExtractEOF ==
    /\ xpc = "run"
    /\ ei > Len(archive)
    /\ xpc' = "ok"
    /\ UNCHANGED << archive, format, ei, xfs >>
    /\ UNCHANGED ExtractFrame

ExtractNext == ExtractTarEntry \/ ExtractZipEntry \/ ExtractEOF

\* ------------------------------------------------------------------------
\* Web server: client messages and runInstallation goroutines
\* ------------------------------------------------------------------------
ServerKeys == {"node", "python"}

NoManifest == [loaded |-> FALSE, keys |-> {}]

Event(type, success, message) == [type |-> type, success |-> success, message |-> message]

ServerInit ==
    /\ loadedManifest = NoManifest
    /\ workers = << >>
    /\ broadcasts = << >>

\* no client has sent anything
ServerIdle == ServerInit

\* "load_manifest": validateAndBroadcastPlan stores the manifest and broadcasts
\* the plan
ClientLoadManifest ==
    /\ Len(broadcasts) < MaxEvents
    /\ \E ks \in (SUBSET ServerKeys) \ {{}} :
          loadedManifest' = [loaded |-> TRUE, keys |-> ks]
    /\ broadcasts' = Append(broadcasts, Event("plan", TRUE, "plan"))
    /\ UNCHANGED workers
    /\ UNCHANGED ServerFrame

\* "confirm": go s.runInstallation()
ClientConfirm ==
    /\ Len(workers) < MaxConfirms
    /\ workers' = Append(workers, [pc |-> "start", plan |-> << >>, idx |-> 0])
    /\ UNCHANGED << loadedManifest, broadcasts >>
    /\ UNCHANGED ServerFrame

\* "cancel": the complete event with success=false is broadcast
ClientCancel ==
    /\ Len(broadcasts) < MaxEvents
    /\ broadcasts' = Append(broadcasts, Event("complete", FALSE, "cancelled"))
    /\ UNCHANGED << loadedManifest, workers >>
    /\ UNCHANGED ServerFrame

\* "configure": go s.runConfigure(msg), which ends in runPostSetupAndComplete
ClientConfigure ==
    /\ Len(broadcasts) < MaxEvents
    /\ loadedManifest.loaded
    /\ broadcasts' = Append(broadcasts, Event("complete", TRUE, "complete"))
    /\ UNCHANGED << loadedManifest, workers >>
    /\ UNCHANGED ServerFrame

\* runInstallation up to its loop: read s.loadedManifest, build the plan
RunStart ==
    /\ \E w \in DOMAIN workers :
        /\ workers[w].pc = "start"
        /\ IF ~loadedManifest.loaded
           THEN workers' = [workers EXCEPT ![w].pc = "done"]
           ELSE \E d \in ExecSnapshots, order \in Perms(loadedManifest.keys) :
                   workers' = [workers EXCEPT
                       ![w] = [pc |-> "loop", idx |-> 1,
                               plan |-> BuildPlan([k \in loadedManifest.keys |-> ExecRequirement],
                                                  d, order)]]
        /\ UNCHANGED << loadedManifest, broadcasts >>
    /\ UNCHANGED ServerFrame

\* the head of one loop iteration, up to the call of InstallSingleRuntime
RunLoop ==
    /\ \E w \in DOMAIN workers :
        /\ workers[w].pc = "loop"
        /\ LET g == workers[w]
           IN  IF g.idx > Len(g.plan)
               THEN workers' = [workers EXCEPT ![w].pc = "packages"]
               ELSE IF g.plan[g.idx].Action = ActionSkip
                    THEN workers' = [workers EXCEPT ![w].idx = g.idx + 1]
                    ELSE workers' = [workers EXCEPT ![w].pc = "installing"]
        /\ UNCHANGED << loadedManifest, broadcasts >>
    /\ UNCHANGED ServerFrame

\* InstallSingleRuntime returns; an error is broadcast with the complete event
\* with success=false
RunInstallReturns ==
    /\ \E w \in DOMAIN workers :
        /\ workers[w].pc = "installing"
        /\ \E ok \in BOOLEAN :
              IF ok
              THEN /\ workers' = [workers EXCEPT ![w].pc = "loop",
                                                 ![w].idx = workers[w].idx + 1]
                   /\ UNCHANGED broadcasts
              ELSE /\ workers' = [workers EXCEPT ![w].pc = "failed"]
                   /\ broadcasts' = Append(broadcasts, Event("complete", FALSE, "failed"))
        /\ UNCHANGED loadedManifest
    /\ UNCHANGED ServerFrame

\* package installation and the end of runInstallation: the configure step is
\* announced when the manifest has env or config fields, otherwise
\* runPostSetupAndComplete broadcasts the complete event with success=true
RunPackages ==
    /\ \E w \in DOMAIN workers :
        /\ workers[w].pc = "packages"
        /\ \E hasFields \in BOOLEAN :
              IF hasFields
              THEN /\ workers' = [workers EXCEPT ![w].pc = "configure"]
                   /\ UNCHANGED broadcasts
              ELSE /\ workers' = [workers EXCEPT ![w].pc = "done"]
                   /\ broadcasts' = Append(broadcasts, Event("complete", TRUE, "complete"))
        /\ UNCHANGED loadedManifest
    /\ UNCHANGED ServerFrame

ServerNext ==
    \/ ClientLoadManifest
    \/ ClientConfirm
    \/ ClientCancel
    \/ ClientConfigure
    \/ RunStart
    \/ RunLoop
    \/ RunInstallReturns
    \/ RunPackages

\* ------------------------------------------------------------------------
\* Version resolution: ResolveVersion of the Node.js, Go and Python installers
\* against the release index they fetch
\* ------------------------------------------------------------------------
TrimPrefix(s, p) == IF HasPrefix(s, p) THEN SubSeq(s, Len(p) + 1, Len(s)) ELSE s

Resolved(version) == [ret |-> version, err |-> FALSE]

ResolveFailed == [ret |-> << >>, err |-> TRUE]

\* the first release of the list, newest first, whose version the constraint accepts
FirstMatch(vers, c) ==
    LET ok(i) == NewVersion(vers[i]).ok /\ Check(c, NewVersion(vers[i]).v)
    IN  IF \E i \in DOMAIN vers : ok(i)
        THEN CHOOSE i \in DOMAIN vers : ok(i) /\ \A j \in 1..(i - 1) : ~ok(j)
        ELSE 0

\* NodeInstaller.ResolveVersion and GoInstaller.ResolveVersion: releases is the
\* index in the order the site lists it; a release is [Version, Stable], where
\* Stable is the LTS mark of Node.js and the stable mark of Go
ListResolveVersion(prefix, fetched, releases, requirement) ==
    LET kept == SelectSeq(releases, LAMBDA r : r.Stable)
        vers == [i \in DOMAIN kept |-> TrimPrefix(kept[i].Version, prefix)]
        c    == NewConstraint(requirement)
    IN  IF ~fetched THEN ResolveFailed
        ELSE IF Len(kept) = 0 THEN ResolveFailed
        ELSE IF requirement = Latest THEN Resolved(vers[1])
        ELSE IF ~c.ok THEN Resolved(vers[1])
        ELSE IF FirstMatch(vers, c) # 0 THEN Resolved(vers[FirstMatch(vers, c)])
        ELSE Resolved(vers[1])

\* the greatest of a set of parsed version strings
Best(S) ==
    CHOOSE x \in S : \A y \in S : VLeq(NewVersion(y).v, NewVersion(x).v)

\* PythonInstaller.ResolveVersion: the versions are those of the asset names of
\* the latest release
PythonResolveVersion(fetched, releases, requirement) ==
    LET versions == { releases[i].Version : i \in DOMAIN releases }
        parsed   == { v \in versions : NewVersion(v).ok }
        c        == NewConstraint(requirement)
        matching == { v \in parsed : Check(c, NewVersion(v).v) }
        latest   == IF parsed # {} THEN Resolved(Best(parsed)) ELSE ResolveFailed
    IN  IF ~fetched THEN ResolveFailed
        ELSE IF requirement = Latest THEN latest
        ELSE IF ~c.ok THEN latest
        ELSE IF matching # {} THEN Resolved(Best(matching))
        ELSE ResolveFailed

ResolveWith(name, fetched, releases, requirement) ==
    CASE name = "node"   -> ListResolveVersion(<< "v" >>, fetched, releases, requirement)
      [] name = "go"     -> ListResolveVersion(<< "go" >>, fetched, releases, requirement)
      [] name = "python" -> PythonResolveVersion(fetched, releases, requirement)

\* what the sites publish: the version strings carry the site's prefix
ReleaseVersions ==
    { << "1", ".", "0", ".", "2" >>, << "1", ".", "1", ".", "0" >>,
      << "2", ".", "1", ".", "0" >> }

SitePrefix(name) ==
    CASE name = "node" -> << "v" >> [] name = "go" -> << "go" >> [] OTHER -> << >>

\* an index lists distinct versions, newest first
Indexes(name) ==
    UNION { { r \in [1..n -> [Version : { SitePrefix(name) \o v : v \in ReleaseVersions },
                              Stable : BOOLEAN]] :
                \A i, j \in 1..n :
                    i < j => VLess(NewVersion(TrimPrefix(r[j].Version, SitePrefix(name))).v,
                                   NewVersion(TrimPrefix(r[i].Version, SitePrefix(name))).v) } :
            n \in 0..MaxReleases }

NoResolve == [pc |-> "off", name |-> "", fetched |-> FALSE, releases |-> << >>,
              requirement |-> << >>, ret |-> << >>, err |-> FALSE]

ResolveIdle == rv = NoResolve

ResolveInit ==
    \E name \in {"node", "go", "python"}, fetched \in BOOLEAN :
      \E releases \in Indexes(name), requirement \in Requirements :
        rv = [pc |-> "call", name |-> name, fetched |-> fetched,
              releases |-> IF fetched THEN releases ELSE << >>,
              requirement |-> requirement, ret |-> << >>, err |-> FALSE]

\* installer.ResolveVersion(requirement)
DoResolveVersion ==
    /\ rv.pc = "call"
    /\ LET r == ResolveWith(rv.name, rv.fetched, rv.releases, rv.requirement)
       IN  rv' = [rv EXCEPT !.pc = "returned", !.ret = r.ret, !.err = r.err]
    /\ UNCHANGED ResolveFrame

\* ------------------------------------------------------------------------
\* Runtime detection: ScanRuntimes over the catalogue
\* ------------------------------------------------------------------------
runtimeCheck(name, binary, arg) == [Name |-> name, Binary |-> binary, VersionArg |-> arg]

checks ==
    << runtimeCheck("Node.js", "node", "--version"),
       runtimeCheck("npm", "npm", "--version"),
       runtimeCheck("pnpm", "pnpm", "--version"),
       runtimeCheck("yarn", "yarn", "--version"),
       runtimeCheck("bun", "bun", "--version"),
       runtimeCheck("Python", "python3", "--version"),
       runtimeCheck("pip", "pip3", "--version"),
       runtimeCheck("Flutter", "flutter", "--version"),
       runtimeCheck("Dart", "dart", "--version"),
       runtimeCheck("Java", "java", "--version"),
       runtimeCheck("Go", "go", "version"),
       runtimeCheck("Rust", "rustc", "--version"),
       runtimeCheck("Cargo", "cargo", "--version"),
       runtimeCheck("Ruby", "ruby", "--version"),
       runtimeCheck("PHP", "php", "--version"),
       runtimeCheck(".NET", "dotnet", "--version"),
       runtimeCheck("Git", "git", "--version") >>

\* the version reported for a tool whose version command fails
InstalledVersionUnknown == << "installed " >> \o VersionUnknown

NoSdkMessage == << "No .NET SDKs were found" >>

\* isWindowsStub: the output, lower-cased, holds one of three messages
isWindowsStub(output) ==
    LET lower == ToLower(output)
    IN  \/ Contains(lower, << "microsoft", " ", "store" >>)
        \/ Contains(lower, << "was not found" >>)
        \/ Contains(lower, << "app execution aliases" >>)

\* s up to the first occurrence of the byte b, all of s when there is none
UpTo(s, b) ==
    IF \E i \in DOMAIN s : s[i] = b
    THEN SubSeq(s, 1, (CHOOSE i \in DOMAIN s : s[i] = b /\ \A j \in 1..(i - 1) : s[j] # b) - 1)
    ELSE s

VersionPrefixes ==
    << << "v" >>, << "go version go" >>, << "Python " >>, << "python " >>,
       << "Flutter " >>, << "flutter " >>, << "rustc " >>, << "ruby " >>, << "php " >>,
       << "git version " >>, << "Dart SDK version: " >> >>

RECURSIVE TrimPrefixes(_, _)
TrimPrefixes(s, ps) ==
    IF ps = << >> THEN s ELSE TrimPrefixes(TrimPrefix(s, Head(ps)), Tail(ps))

\* parseVersion: first line, known prefixes stripped, cut at the first space
parseVersion(output) ==
    TrimSpace(UpTo(TrimPrefixes(UpTo(TrimSpace(output), "\n"), VersionPrefixes), " "))

\* what exec.LookPath and the version command do for one catalogue entry:
\* look and alt are whether the binary and its fall-back name are on the search
\* path, err whether the command fails, out its combined output
Probe(look, alt, err, output) ==
    [look |-> look, alt |-> alt, err |-> err, out |-> output]

NotOnPath == Probe(FALSE, FALSE, FALSE, << >>)

FallbackBinary(binary) ==
    CASE binary = "python3" -> "python"
      [] binary = "pip3"    -> "pip"
      [] OTHER              -> ""

\* A detector that reports every tool whose version command fails as not installed
detectRuntimeFailedIsAbsent(c, p) ==
    LET info == [Name |-> c.Name, Installed |-> FALSE, Version |-> << >>, Path |-> << >>]
        found == p.look \/ (FallbackBinary(c.Binary) # "" /\ p.alt)
        path == IF p.look THEN SystemPath(c.Binary)
                ELSE SystemPath(FallbackBinary(c.Binary))
    IN  IF ~found \/ p.err THEN info
        ELSE [info EXCEPT !.Installed = TRUE, !.Path = path,
                          !.Version = parseVersion(p.out)]

\* detectRuntime(c) on a host where the probes of c do p
detectRuntime(c, p) ==
    LET info == [Name |-> c.Name, Installed |-> FALSE, Version |-> << >>, Path |-> << >>]
        found == p.look \/ (FallbackBinary(c.Binary) # "" /\ p.alt)
        path == IF p.look THEN SystemPath(c.Binary)
                ELSE SystemPath(FallbackBinary(c.Binary))
    IN  IF ~found THEN info
        ELSE IF p.err
        THEN IF isWindowsStub(p.out) THEN info
             ELSE IF c.Binary = "dotnet" /\ Contains(p.out, NoSdkMessage) THEN info
             ELSE [info EXCEPT !.Installed = TRUE, !.Path = path,
                               !.Version = InstalledVersionUnknown]
        ELSE [info EXCEPT !.Installed = TRUE, !.Path = path,
                          !.Version = parseVersion(p.out)]

\* outputs of a version command that fails
FailureOutputs ==
    { << "Python ", "was not found" >>, << "Microsoft", " ", "Store" >>,
      NoSdkMessage, << "error" >> }

\* output of a version command that succeeds
VersionOutputs == { << "v", "2", ".", "1", ".", "0", "\n" >> }

\* what the probes of a tool that is on the search path can do
FoundProbes(c) ==
    LET ran == { Probe(FALSE, FALSE, FALSE, o) : o \in VersionOutputs }
                 \cup { Probe(FALSE, FALSE, TRUE, o) : o \in FailureOutputs }
    IN  { [r EXCEPT !.look = TRUE] : r \in ran }
        \cup (IF FallbackBinary(c.Binary) # ""
              THEN { [r EXCEPT !.alt = TRUE] : r \in ran } ELSE {})

\* the tools of the catalogue that are on the search path: at most MaxFound
FoundSets == { T \in SUBSET DOMAIN checks : Cardinality(T) <= MaxFound }

\* a host: the tools in some set are on its search path, the others are not
ScanInit ==
    /\ \E S \in FoundSets :
          \E f \in [S -> UNION { FoundProbes(checks[i]) : i \in S }] :
             /\ \A i \in S : f[i] \in FoundProbes(checks[i])
             /\ probes = [i \in DOMAIN checks |-> IF i \in S THEN f[i] ELSE NotOnPath]
    /\ scan = [pc |-> "scan", i |-> 1, results |-> << >>]

ScanIdle ==
    /\ probes = << >>
    /\ scan = [pc |-> "off", i |-> 0, results |-> << >>]

\* one iteration of ScanRuntimes' loop over checks, or its return
ScanRuntimes ==
    /\ scan.pc = "scan"
    /\ IF scan.i > Len(checks)
       THEN scan' = [scan EXCEPT !.pc = "done"]
       ELSE scan' = [scan EXCEPT !.i = @ + 1,
                       !.results = Append(@, detectRuntime(checks[scan.i], probes[scan.i]))]
    /\ UNCHANGED probes
    /\ UNCHANGED << planVars, installVars, execVars, extractVars, serverVars, hostVars,
                    cmdVars, resolveVars, tuiVars, hubVars >>

\* ------------------------------------------------------------------------
\* The terminal interface as a phase machine: tui.New, Model.Init, Model.Update
\* ------------------------------------------------------------------------
Phases == << "summary", "confirm", "install", "packages", "configure", "complete" >>

TuiKeys == Keys \cup {"tab"}

\* plans handed to tui.New: runtime names with their actions
TuiPlans ==
    UNION { { [i \in DOMAIN order |-> [Name |-> order[i], Action |-> a[order[i]]]] :
                a \in [ks -> {ActionSkip, ActionInstall, ActionUpgrade}],
                order \in Perms(ks) } :
            ks \in { k \in SUBSET RunKeys : Cardinality(k) <= MaxPlanLen } }

\* Model.actionRuntimes(): the names of the entries that are not skipped
actionRuntimes(p) ==
    LET act(r) == r.Action # ActionSkip
        sel == SelectSeq(p, act)
    IN  [i \in DOMAIN sel |-> sel[i].Name]

\* the phase of m becomes ph because of the message by
Enter(m, ph, by) ==
    IF m.phase = ph THEN m
    ELSE [m EXCEPT !.phase = ph, !.trail = Append(@, [phase |-> ph, by |-> by])]

\* tui.New followed by Model.Init, which issues installRuntimeCmd(0) in phaseInstall
New(p, skipConfirm, fields) ==
    LET ph == IF ~NeedsAction(p)
              THEN (IF fields > 0 THEN "configure" ELSE "complete")
              ELSE IF skipConfirm THEN "install" ELSE "summary"
    IN  [phase |-> ph, plan |-> p, skipConfirm |-> skipConfirm,
         fields |-> fields, focused |-> 0, done |-> FALSE, skipped |-> FALSE,
         current |-> 0, installResults |-> << >>, finalErr |-> FALSE,
         installing |-> IF ph = "install" THEN 1 ELSE 0,
         packagesRunning |-> FALSE, writes |-> 0, ran |-> << >>, quit |-> FALSE,
         trail |-> << [phase |-> ph, by |-> "new"] >>]

\* configureModel.Update for a key: tab moves the focus, enter submits on the
\* last field and moves on otherwise, any other key goes to the focused input
ConfigureKey(m, k) ==
    CASE k = "tab"   -> [m EXCEPT !.focused = (m.focused + 1) % m.fields]
      [] k = "enter" -> IF m.focused = m.fields - 1 THEN [m EXCEPT !.done = TRUE]
                        ELSE [m EXCEPT !.focused = m.focused + 1]
      [] OTHER       -> m

\* A key handler in which esc at the confirmation shows the summary again
UpdateKeyEscGoesBack(m, k) ==
    IF k = "ctrl+c" THEN [m EXCEPT !.quit = TRUE]
    ELSE IF k = "q" /\ m.phase \in {"complete", "summary", "confirm"}
    THEN [m EXCEPT !.quit = TRUE]
    ELSE CASE m.phase = "summary"   -> Enter(m, "confirm", k)
           [] m.phase = "confirm"   ->
                IF k \in {"y", "Y"} THEN [Enter(m, "install", k) EXCEPT !.installing = 1]
                ELSE IF k = "esc" THEN Enter(m, "summary", k)
                ELSE IF k \in {"n", "N"} THEN [m EXCEPT !.quit = TRUE]
                ELSE m
           [] m.phase = "configure" ->
                IF k = "esc" THEN [Enter(m, "complete", k) EXCEPT !.skipped = TRUE]
                ELSE LET c == ConfigureKey(m, k)
                     IN  IF c.done THEN [c EXCEPT !.writes = @ + 1] ELSE c
           [] m.phase = "complete"  -> [m EXCEPT !.quit = TRUE]
           [] OTHER                 -> m

\* Model.Update for a tea.KeyMsg
UpdateKey(m, k) ==
    IF k = "ctrl+c" THEN [m EXCEPT !.quit = TRUE]
    ELSE IF k = "q" /\ m.phase \in {"complete", "summary", "confirm"}
    THEN [m EXCEPT !.quit = TRUE]
    ELSE CASE m.phase = "summary"   -> Enter(m, "confirm", k)
           [] m.phase = "confirm"   ->
                IF k \in {"y", "Y"} THEN [Enter(m, "install", k) EXCEPT !.installing = 1]
                ELSE IF k \in {"n", "N", "esc"} THEN [m EXCEPT !.quit = TRUE]
                ELSE m
           [] m.phase = "configure" ->
                IF k = "esc" THEN [Enter(m, "complete", k) EXCEPT !.skipped = TRUE]
                ELSE LET c == ConfigureKey(m, k)
                     IN  IF c.done THEN [c EXCEPT !.writes = @ + 1] ELSE c
           [] m.phase = "complete"  -> [m EXCEPT !.quit = TRUE]
           [] OTHER                 -> m

\* Model.Update for runtimeInstalledMsg: the next runtime, or the packages
UpdateRuntimeInstalled(m) ==
    LET names == actionRuntimes(m.plan)
        r == [m EXCEPT !.installResults = Append(@, names[m.installing]),
                       !.current = @ + 1]
    IN  IF r.current < Len(names)
        THEN [r EXCEPT !.installing = r.current + 1]
        ELSE [Enter(r, "packages", "runtimeInstalledMsg") EXCEPT
                 !.installing = 0, !.packagesRunning = TRUE]

\* Model.Update for runtimeFailedMsg
UpdateRuntimeFailed(m) ==
    [Enter(m, "complete", "runtimeFailedMsg") EXCEPT !.finalErr = TRUE, !.installing = 0]

\* Model.Update for packagesDoneMsg
UpdatePackagesDone(m) ==
    [Enter(m, IF m.fields > 0 THEN "configure" ELSE "complete", "packagesDoneMsg")
        EXCEPT !.packagesRunning = FALSE, !.ran = Append(@, "packages")]

\* Model.Update for configDoneMsg
UpdateConfigDone(m) ==
    [Enter(m, "complete", "configDoneMsg") EXCEPT !.writes = @ - 1,
                                                 !.ran = Append(@, "config")]

NoTui == [phase |-> "off"]

TuiIdle == tui = NoTui

TuiInit ==
    \E p \in TuiPlans, skipConfirm \in BOOLEAN, fields \in 0..MaxFields :
        tui = New(p, skipConfirm, fields)

TuiUnchanged ==
    UNCHANGED << planVars, installVars, execVars, extractVars, serverVars, hostVars,
                 cmdVars, resolveVars, scanVars, hubVars >>

\* a key is pressed; after tea.Quit the program handles no message
KeyMsg ==
    /\ ~tui.quit
    /\ \E k \in TuiKeys :
          /\ (tui.phase = "configure" /\ tui.done) => tui.writes < MaxFields
          /\ tui' = UpdateKey(tui, k)
    /\ TuiUnchanged

\* the command of installRuntimeCmd returns: InstallSingleRuntime succeeded or not
RuntimeMsg ==
    /\ ~tui.quit
    /\ tui.installing # 0
    /\ \/ tui' = UpdateRuntimeInstalled(tui)
       \/ tui' = UpdateRuntimeFailed(tui)
    /\ TuiUnchanged

\* the command of runPackagesCmd returns
PackagesDoneMsg ==
    /\ ~tui.quit
    /\ tui.packagesRunning
    /\ tui' = UpdatePackagesDone(tui)
    /\ TuiUnchanged

\* a command of writeConfigCmd returns
ConfigDoneMsg ==
    /\ ~tui.quit
    /\ tui.writes > 0
    /\ tui' = UpdateConfigDone(tui)
    /\ TuiUnchanged

TuiNext ==
    \/ KeyMsg
    \/ RuntimeMsg
    \/ PackagesDoneMsg
    \/ ConfigDoneMsg

\* ------------------------------------------------------------------------
\* The WebSocket hub: Hub.Run, Hub.Broadcast and handleWebSocket's goroutines
\* ------------------------------------------------------------------------
Clients == 1..MaxClients

NoHub == [pc |-> "off"]

HubIdle == hub = NoHub

\* NewHub(), no connection accepted yet.  conn is the position of a connection's
\* handleWebSocket ("none", "open": in the reader loop, "closing": the deferred
\* send on unregister is pending, "closed"), writer the one of its writer
\* goroutine, closes the number of close(client.send) executed, and
\* sentOnClosed whether a send on a closed channel was executed.
NewHub ==
    [pc |-> "select", clients |-> {}, hadClients |-> FALSE, shutdown |-> FALSE,
     broadcast |-> << >>, calls |-> 0, msg |-> 0, todo |-> {},
     send |-> [c \in Clients |-> << >>],
     closes |-> [c \in Clients |-> 0],
     sentOnClosed |-> FALSE,
     conn |-> [c \in Clients |-> "none"],
     writer |-> [c \in Clients |-> "none"]]

\* case client := <-h.register
register(h, c) == [h EXCEPT !.clients = @ \cup {c}, !.hadClients = TRUE]

\* delete(h.clients, client); close(client.send)
dropClient(h, c) == [h EXCEPT !.clients = @ \ {c}, !.closes[c] = @ + 1]

\* the end of the unregister case: onEmpty starts the shutdown in a goroutine
whenEmpty(h) == [h EXCEPT !.shutdown = @ \/ (h.hadClients /\ h.clients = {})]

\* An unregister case that closes the channel without looking the client up
unregisterAlwaysCloses(h, c) == whenEmpty(dropClient(h, c))

\* case client := <-h.unregister
unregister(h, c) == whenEmpty(IF c \in h.clients THEN dropClient(h, c) ELSE h)

\* one iteration of the broadcast case: the select with a default branch
deliver(h, c) ==
    IF h.closes[c] > 0 THEN [h EXCEPT !.sentOnClosed = TRUE]
    ELSE IF Len(h.send[c]) < SendCap THEN [h EXCEPT !.send[c] = Append(@, h.msg)]
    ELSE dropClient(h, c)

HubInit == hub = NewHub

HubUnchanged ==
    UNCHANGED << planVars, installVars, execVars, extractVars, serverVars, hostVars,
                 cmdVars, resolveVars, scanVars, tuiVars >>

\* handleWebSocket accepts a connection, its send on h.register meets the hub's
\* select, and the writer goroutine starts
ClientRegister ==
    /\ hub.pc = "select"
    /\ \E c \in Clients :
          /\ hub.conn[c] = "none"
          /\ hub' = [register(hub, c) EXCEPT !.conn[c] = "open", !.writer[c] = "running"]
    /\ HubUnchanged

\* conn.Read fails: the reader loop returns and the deferred function runs
ClientDisconnect ==
    /\ hub.pc # "off"
    /\ \E c \in Clients :
          /\ hub.conn[c] = "open"
          /\ hub' = [hub EXCEPT !.conn[c] = "closing"]
    /\ HubUnchanged

\* the deferred send on h.unregister meets the hub's select
HubUnregister ==
    /\ hub.pc = "select"
    /\ \E c \in Clients :
          /\ hub.conn[c] = "closing"
          /\ hub' = [unregister(hub, c) EXCEPT !.conn[c] = "closed"]
    /\ HubUnchanged

\* Hub.Broadcast(msg) from a handler or an installation goroutine: the send
\* blocks while the channel is full
Broadcast ==
    /\ hub.pc # "off"
    /\ hub.calls < MaxBroadcasts
    /\ Len(hub.broadcast) < BroadcastCap
    /\ hub' = [hub EXCEPT !.calls = @ + 1, !.broadcast = Append(@, hub.calls + 1)]
    /\ HubUnchanged

\* case msg := <-h.broadcast: the loop over h.clients begins
HubReceive ==
    /\ hub.pc = "select"
    /\ hub.broadcast # << >>
    /\ hub' = [hub EXCEPT !.msg = Head(hub.broadcast), !.broadcast = Tail(@),
                          !.todo = hub.clients,
                          !.pc = IF hub.clients = {} THEN "select" ELSE "bcast"]
    /\ HubUnchanged

\* one iteration of the loop over h.clients, in the order the map yields
HubDeliver ==
    /\ hub.pc = "bcast"
    /\ \E c \in hub.todo :
          hub' = [deliver(hub, c) EXCEPT !.todo = @ \ {c},
                                        !.pc = IF hub.todo = {c} THEN "select" ELSE "bcast"]
    /\ HubUnchanged

\* the writer goroutine receives a message and conn.Write succeeds
WriterTake ==
    /\ hub.pc # "off"
    /\ \E c \in Clients :
          /\ hub.writer[c] = "running"
          /\ hub.send[c] # << >>
          /\ hub' = [hub EXCEPT !.send[c] = Tail(@)]
    /\ HubUnchanged

\* the writer goroutine ends: conn.Write fails on a received message, or the
\* channel is closed and drained
WriterStop ==
    /\ hub.pc # "off"
    /\ \E c \in Clients :
          /\ hub.writer[c] = "running"
          /\ \/ /\ hub.send[c] # << >>
                /\ hub' = [hub EXCEPT !.send[c] = Tail(@), !.writer[c] = "stopped"]
             \/ /\ hub.send[c] = << >>
                /\ hub.closes[c] > 0
                /\ hub' = [hub EXCEPT !.writer[c] = "stopped"]
    /\ HubUnchanged

HubNext ==
    \/ ClientRegister
    \/ ClientDisconnect
    \/ HubUnregister
    \/ Broadcast
    \/ HubReceive
    \/ HubDeliver
    \/ WriterTake
    \/ WriterStop

InitPlan == PlanInit /\ InstallIdle /\ ExecIdle /\ ExtractIdle /\ ServerIdle /\ EnvIdle /\ CmdIdle /\ ResolveIdle /\ ScanIdle /\ TuiIdle /\ HubIdle

SpecPlan == InitPlan /\ [][DoBuildPlan]_vars

SpecReplan == InitPlan /\ [][ReplanNext]_vars

InitInstall == InstallInit /\ PlanIdle /\ ExecIdle /\ ExtractIdle /\ ServerIdle /\ EnvIdle /\ CmdIdle /\ ResolveIdle /\ ScanIdle /\ TuiIdle /\ HubIdle

SpecInstall == InitInstall /\ [][InstallStep]_vars

Init == ExecInit /\ InstallIdle /\ PlanIdle /\ ExtractIdle /\ ServerIdle /\ EnvIdle /\ CmdIdle /\ ResolveIdle /\ ScanIdle /\ TuiIdle /\ HubIdle

Next == ExecNext

Spec == Init /\ [][Next]_vars

InitUndo == UndoInit /\ PlanIdle /\ ExtractIdle /\ ServerIdle /\ EnvIdle /\ CmdIdle /\ ResolveIdle /\ ScanIdle /\ TuiIdle /\ HubIdle

SpecUndo == InitUndo /\ [][UndoCall]_vars

InitUninstall == UninstallInit /\ PlanIdle /\ ExtractIdle /\ ServerIdle /\ EnvIdle /\ CmdIdle /\ ResolveIdle /\ ScanIdle /\ TuiIdle /\ HubIdle

SpecUninstall == InitUninstall /\ [][UninstallNext]_vars

SpecUninstallWarn == InitUninstall /\ [][UninstallWarnNext]_vars

InitLedger == LedgerInit /\ PlanIdle /\ ExtractIdle /\ ServerIdle /\ EnvIdle /\ CmdIdle /\ ResolveIdle /\ ScanIdle /\ TuiIdle /\ HubIdle

SpecLedger == InitLedger /\ [][LedgerNext]_vars

InitEnv == EnvInit /\ PlanIdle /\ ExtractIdle /\ ServerIdle /\ CmdIdle /\ ResolveIdle /\ ScanIdle /\ TuiIdle /\ HubIdle

SpecEnv == InitEnv /\ [][EnvNext]_vars

InitRun == RunInit /\ PlanIdle /\ ExtractIdle /\ ServerIdle /\ EnvIdle /\ CmdIdle /\ ResolveIdle /\ ScanIdle /\ TuiIdle /\ HubIdle

SpecRun == InitRun /\ [][RunNext]_vars

InitRunLoad == RunLoadInit /\ PlanIdle /\ ExtractIdle /\ ServerIdle /\ EnvIdle /\ CmdIdle /\ ResolveIdle /\ ScanIdle /\ TuiIdle /\ HubIdle

SpecRunLoad == InitRunLoad /\ [][RunLoadNext]_vars

InitStub == StubInit /\ PlanIdle /\ ExtractIdle /\ ServerIdle /\ EnvIdle /\ CmdIdle /\ ResolveIdle /\ ScanIdle /\ TuiIdle /\ HubIdle

SpecStub == InitStub /\ [][StubNext]_vars

InitValidated ==
    ValidateInit /\ InstallIdle /\ ExecIdle /\ ExtractIdle /\ ServerIdle /\ EnvIdle
                 /\ CmdIdle /\ ResolveIdle /\ ScanIdle /\ TuiIdle /\ HubIdle

SpecValidated == InitValidated /\ [][ValidatedNext]_vars

InitCmd == CmdInit /\ PlanIdle /\ ExtractIdle /\ ServerIdle /\ EnvIdle /\ ResolveIdle /\ ScanIdle /\ TuiIdle /\ HubIdle

SpecCmd == InitCmd /\ [][CmdNext]_vars

InitResolve ==
    ResolveInit /\ PlanIdle /\ InstallIdle /\ ExecIdle /\ ExtractIdle /\ ServerIdle
                /\ EnvIdle /\ CmdIdle /\ ScanIdle /\ TuiIdle /\ HubIdle

SpecResolve == InitResolve /\ [][DoResolveVersion]_vars

InitScan ==
    ScanInit /\ PlanIdle /\ InstallIdle /\ ExecIdle /\ ExtractIdle /\ ServerIdle
             /\ EnvIdle /\ CmdIdle /\ ResolveIdle /\ TuiIdle /\ HubIdle

SpecScan == InitScan /\ [][ScanRuntimes]_vars

InitTui ==
    TuiInit /\ PlanIdle /\ InstallIdle /\ ExecIdle /\ ExtractIdle /\ ServerIdle
            /\ EnvIdle /\ CmdIdle /\ ResolveIdle /\ ScanIdle /\ HubIdle

SpecTui == InitTui /\ [][TuiNext]_vars

InitHub ==
    HubInit /\ PlanIdle /\ InstallIdle /\ ExecIdle /\ ExtractIdle /\ ServerIdle
            /\ EnvIdle /\ CmdIdle /\ ResolveIdle /\ ScanIdle /\ TuiIdle

\* the hub goroutine runs whenever it can take a step on its own: a message
\* waits in h.broadcast, or it is inside the loop over h.clients.  Nothing is
\* assumed of the clients, of their writer goroutines or of the broadcasters.
SpecHub ==
    InitHub /\ [][HubNext]_vars /\ WF_vars(HubReceive) /\ WF_vars(HubDeliver)

InitExtract == ExtractInit /\ PlanIdle /\ InstallIdle /\ ExecIdle /\ ServerIdle /\ EnvIdle /\ CmdIdle /\ ResolveIdle /\ ScanIdle /\ TuiIdle /\ HubIdle

SpecExtract == InitExtract /\ [][ExtractNext]_vars

InitServer == ServerInit /\ PlanIdle /\ InstallIdle /\ ExecIdle /\ ExtractIdle /\ EnvIdle /\ CmdIdle /\ ResolveIdle /\ ScanIdle /\ TuiIdle /\ HubIdle

SpecServer == InitServer /\ [][ServerNext]_vars

\* ------------------------------------------------------------------------
\* Properties
\* ------------------------------------------------------------------------

\* C1: every runtime key of the manifest has one plan entry, whose action is skip
\* iff the runtime is detected as installed and versionSatisfies returns
\* (true, no error); install iff it is absent or not installed; upgrade iff it is
\* installed and versionSatisfies returns false or an error.
C1_PlanActions ==
    planPc = "built" =>
        /\ Len(plan) = Cardinality(DOMAIN manifestRuntimes)
        /\ { plan[i].Name : i \in DOMAIN plan } = DOMAIN manifestRuntimes
        /\ \A i \in DOMAIN plan :
              LET e  == plan[i]
                  dn == runtimeDetectNames(e.Name)
                  present == dn \in DOMAIN detected /\ detected[dn].Installed
                  r  == IF present
                        THEN versionSatisfies(detected[dn].Version,
                                              manifestRuntimes[e.Name])
                        ELSE [sat |-> FALSE, err |-> FALSE]
              IN  /\ e.Action \in {ActionSkip, ActionInstall, ActionUpgrade}
                  /\ e.Action = ActionSkip <=> (present /\ r.sat /\ ~r.err)
                  /\ e.Action = ActionInstall <=> ~present
                  /\ e.Action = ActionUpgrade <=> (present /\ (~r.sat \/ r.err))

\* a built plan holding an upgrade caused by a parse failure, next to a skip
C1_Witness ==
    /\ planPc = "built"
    /\ \E i \in DOMAIN plan :
          /\ plan[i].Action = ActionUpgrade
          /\ versionSatisfies(plan[i].InstalledVersion, plan[i].RequiredVersion).err
    /\ \E i \in DOMAIN plan : plan[i].Action = ActionSkip

\* two hex digests differ when compared without regard to case
ToUpperTok(t) == CASE t = "a" -> "A" [] t = "b" -> "B" [] OTHER -> t

DigestsDiffer(a, b) ==
    \/ Len(a) # Len(b)
    \/ \E i \in DOMAIN a : ToUpperTok(a[i]) # ToUpperTok(b[i])

\* C2: a checksum verification of digests that differ (case-insensitively)
\* returns an error, and an Install call whose verification returned an error
\* ends in an error with no extraction step and no target directory.
C2_ChecksumEnforced ==
    \A i \in DOMAIN trace :
        trace[i].step = "verify" =>
            /\ DigestsDiffer(trace[i].of[1], trace[i].of[2]) => ~trace[i].ok
            /\ ~trace[i].ok =>
                  /\ i = Len(trace)
                  /\ ipc = "err"
                  /\ inst.targetDir \notin disk

\* an Install call that ended after a failed verification
C2_Witness ==
    /\ ipc = "err"
    /\ \E i \in DOMAIN trace :
          /\ trace[i].step = "verify"
          /\ ~trace[i].ok
          /\ DigestsDiffer(trace[i].of[1], trace[i].of[2])

\* C3: in every Install call of a non-stub installer, extraction or execution
\* of the downloaded artifact is preceded by a successful checksum verification.
C3_VerifiedBeforeUse ==
    \A i \in DOMAIN trace :
        trace[i].step \in {"extract", "execute"} =>
            \E j \in 1..(i - 1) : trace[j].step = "verify" /\ trace[j].ok

\* C5: when ExecutePlan has returned, with or without an error, the persisted
\* ledger holds an Installation record for every runtime installed in the run
\* and every PATH/env modification the run recorded.
C5_CompletedInstallsPersisted ==
    pc = "returned" =>
        LET saved == Load(ledgerFile)
        IN  /\ \A i \in DOMAIN results :
                  \E j \in DOMAIN saved.Installations :
                      /\ saved.Installations[j].Runtime = results[i].Runtime
                      /\ saved.Installations[j].Version = results[i].Version
                      /\ saved.Installations[j].Path = results[i].InstallPath
            /\ Range(st.PathModifications) \subseteq Range(saved.PathModifications)
            /\ Range(st.EnvModifications) \subseteq Range(saved.EnvModifications)

\* a line of a shell file carries the tool's marker
HasMarker(content) == \E i \in DOMAIN content : Contains(content[i], << MarkerTag >>)

\* C6: after an uninstall in which UndoAll undid every installation, no
\* installation directory exists, no shell file holds a marker block and the
\* persisted ledger has no installation, path or env records.
C6_UninstallClean ==
    (pc = "uninstalled" /\ Len(undone) = Len(snapshot)) =>
        /\ disk = {}
        /\ \A f \in RcFiles : ~HasMarker(rc[f])
        /\ Load(ledgerFile).Installations = << >>
        /\ Load(ledgerFile).PathModifications = << >>
        /\ Load(ledgerFile).EnvModifications = << >>

\* the installation record an UndoInstallation call removed
UndoneRecord(u) ==
    LET match(i) == i.Runtime = u.runtime /\ i.Version = u.version
    IN  SelectSeq(u.before.Installations, match)[1]

\* C7: after a successful UndoInstallation the ledger has no path or env
\* modification whose value is prefixed by the removed installation's path,
\* and the UndoResult reports every such record.
C7_UndoRemovesPrefixed ==
    (pc \in {"undo", "undoall"} /\ ~lastUndo.err) =>
        LET path == UndoneRecord(lastUndo).Path
            reported == Range(lastUndo.result.PathMod) \cup Range(lastUndo.result.EnvMods)
        IN  /\ \A m \in Range(st.PathModifications) \cup Range(st.EnvModifications) :
                  ~HasPrefix(m.Value, path)
            /\ \A m \in Range(lastUndo.before.PathModifications)
                        \cup Range(lastUndo.before.EnvModifications) :
                  HasPrefix(m.Value, path) => m \in reported

\* C8: UndoInstallation on a ledger of exactly one installation, the matching
\* one, and one path modification prefixed by its path leaves no installation,
\* no path modification and no installation directory.
C8_UndoComplete ==
    (/\ pc \in {"undo", "undoall"}
     /\ ~lastUndo.err
     /\ Len(lastUndo.before.Installations) = 1
     /\ Len(lastUndo.before.PathModifications) = 1
     /\ HasPrefix(lastUndo.before.PathModifications[1].Value,
                  lastUndo.before.Installations[1].Path)) =>
        /\ st.Installations = << >>
        /\ st.PathModifications = << >>
        /\ lastUndo.before.Installations[1].Path \notin disk
        /\ Len(lastUndo.result.PathMod) = 1

\* a successful undo on such a ledger, whose directory existed
C8_Witness ==
    /\ pc = "undo"
    /\ ~lastUndo.err
    /\ Len(lastUndo.before.Installations) = 1
    /\ Len(lastUndo.before.PathModifications) = 1
    /\ HasPrefix(lastUndo.before.PathModifications[1].Value,
                 lastUndo.before.Installations[1].Path)
    /\ st.Installations = << >>

\* the steps of one runtime's installation, in the order the claim gives
StepRank(s) ==
    CASE s = "resolve"  -> 1
      [] s = "download" -> 2
      [] s = "verify"   -> 3
      [] s = "extract"  -> 4
      [] s = "path"     -> 5
      [] s = "env"      -> 6
      [] s = "record"   -> 7
      [] OTHER          -> 0

FatalSteps == {"resolve", "download", "verify", "extract"}

\* C9: within one runtime's installation a step starts only after every fatal
\* step that precedes it in the order resolve, download, verify, extract, path,
\* env, record has succeeded.
C9_StepsSequential ==
    \A i \in DOMAIN trace :
        StepRank(trace[i].step) > 0 =>
            \A f \in FatalSteps :
                StepRank(f) < StepRank(trace[i].step) =>
                    \E j \in 1..(i - 1) : trace[j].step = f /\ trace[j].ok

\* C4: an archive with an entry whose name resolves outside the destination
\* directory is not extracted successfully, and nothing extraction creates
\* lies outside the destination directory.
C4_NoWriteOutside ==
    /\ xpc = "ok" =>
          \A i \in DOMAIN archive : Inside(FilepathJoin(DestDir, archive[i].name), DestDir)
    /\ \A n \in xfs : Inside(n.path, DestDir)

\* C10: at most one runtime installation is in progress at any moment.
C10_OneAtATime ==
    Cardinality({ w \in DOMAIN workers : workers[w].pc = "installing" }) <= 1

\* C20: for every installed-version string, parseable or not,
\* versionSatisfies(installed, "latest") returns (true, no error), and a detected
\* runtime whose requirement is "latest" is planned as skip.
C20_LatestAlwaysSkip ==
    planPc = "built" =>
        \A i \in DOMAIN plan :
            LET e  == plan[i]
                dn == runtimeDetectNames(e.Name)
            IN  (e.RequiredVersion = Latest /\ dn \in DOMAIN detected
                                            /\ detected[dn].Installed) =>
                    /\ versionSatisfies(detected[dn].Version, Latest)
                           = [sat |-> TRUE, err |-> FALSE]
                    /\ e.Action = ActionSkip

\* a built plan whose requirement is "latest" for a runtime detected with a
\* version string that does not parse
C20_Witness ==
    /\ planPc = "built"
    /\ \E i \in DOMAIN plan :
          /\ plan[i].RequiredVersion = Latest
          /\ plan[i].InstalledVersion \in {VersionUnknown, << "nightly" >>}
          /\ ~NewVersion(plan[i].InstalledVersion).ok
          /\ plan[i].Action = ActionSkip

\* C18: UndoInstallation(runtime, version) for a pair that has no installation
\* record returns an error and a nil result, deletes nothing on disk and leaves
\* the ledger's installations, path modifications and env modifications unchanged.
C18_UndoNotFound ==
    [][ (/\ pc = "undo"
         /\ \A i \in Range(st.Installations) :
                ~(i.Runtime = lastUndo'.runtime /\ i.Version = lastUndo'.version)) =>
            /\ lastUndo'.err
            /\ lastUndo'.result = NoUndoResult
            /\ disk' = disk
            /\ st'.Installations = st.Installations
            /\ st'.PathModifications = st.PathModifications
            /\ st'.EnvModifications = st.EnvModifications ]_vars

\* an undo was called for a version that is not recorded while another version
\* of the same runtime is, with its directory and its path modification
C18_Witness ==
    /\ pc = "undo"
    /\ lastUndo.err
    /\ lastUndo.runtime # ""
    /\ \A i \in Range(lastUndo.before.Installations) :
           ~(i.Runtime = lastUndo.runtime /\ i.Version = lastUndo.version)
    /\ \E i \in Range(st.Installations) :
           /\ i.Runtime = lastUndo.runtime
           /\ i.Path \in disk
    /\ st.PathModifications # << >>

\* C17: UndoAll attempts UndoInstallation for every installation record of the
\* ledger at the moment of the call; a failure does not stop the loop, every
\* failure is in the error list, and every installation whose undo succeeded is
\* in the result list and no longer in the ledger.
C17_UndoAllContinues ==
    (pc \in {"undoall", "usave", "uninstalled"} /\ ui > Len(snapshot)) =>
        /\ Len(undone) + Len(undoErrs) = Len(snapshot)
        /\ \A e \in Range(undoErrs) :
              \E k \in DOMAIN snapshot :
                  e = [Runtime |-> snapshot[k].Runtime, Version |-> snapshot[k].Version]
        /\ \A k \in DOMAIN snapshot :
              LET pair == [Runtime |-> snapshot[k].Runtime,
                           Version |-> snapshot[k].Version]
              IN  pair \notin Range(undoErrs) =>
                      /\ \A i \in Range(st.Installations) :
                             ~(i.Runtime = pair.Runtime /\ i.Version = pair.Version)
                      /\ snapshot[k].Path \notin disk

\* UndoAll has ended on a ledger of two installations: the first could not be
\* undone, the second was
C17_Witness ==
    /\ pc = "usave"
    /\ Len(snapshot) = 2
    /\ undoErrs = << [Runtime |-> snapshot[1].Runtime, Version |-> snapshot[1].Version] >>
    /\ Len(undone) = 1
    /\ snapshot[2].Path \notin disk
    /\ snapshot[1].Path \in disk
    /\ Len(st.Installations) = 1

\* C19: Load with no ledger file returns an empty ledger; saving it and loading
\* again yields an empty ledger; and for any ledger, Save followed by Load yields
\* a ledger with the same installation, path-modification and env-modification
\* records in the same order.
C19_SaveLoadRoundTrip ==
    [][ /\ ~ledgerFile.exists =>
              /\ Load(ledgerFile).Installations = << >>
              /\ Load(ledgerFile).PathModifications = << >>
              /\ Load(ledgerFile).EnvModifications = << >>
        /\ ledgerFile' # ledgerFile =>
              /\ Load(ledgerFile').Installations = st.Installations
              /\ Load(ledgerFile').PathModifications = st.PathModifications
              /\ Load(ledgerFile').EnvModifications = st.EnvModifications ]_vars

\* the file holds a saved ledger of two installations, one of them an upgrade and
\* one whose document omits its empty optional fields, with an env modification,
\* and the ledger in memory is the one loaded from it
C19_Witness ==
    /\ pc = "loaded"
    /\ ledgerFile.exists
    /\ st = Load(ledgerFile)
    /\ Len(st.Installations) = 2
    /\ \E i \in Range(st.Installations) : i.PreviousVersion # << >>
    /\ \E d \in Range(ledgerFile.state["installations"]) :
           "previous_version" \notin DOMAIN d
    /\ st.PathModifications # << >>
    /\ st.EnvModifications # << >>

\* the markered blocks of dir in a shell file, the entries of dir in the user
\* PATH, and whether the ledger holds a path modification for dir
BlocksIn(content, dir) ==
    Cardinality({ i \in DOMAIN content : content[i] = PathMarker(dir) })

PathEntries(env, dir) ==
    Cardinality({ i \in DOMAIN env.Path : EqualFold(TrimSpace(env.Path[i]), dir) })

Persisted(dir) == \E m \in Range(st.PathModifications) : m.Value = dir

WithoutBlock(lines, marker) ==
    LET keep == { i \in DOMAIN lines :
                    /\ lines[i] # marker
                    /\ (i = 1 \/ lines[i - 1] # marker) }
        nth(j) == CHOOSE i \in keep : Cardinality({ k \in keep : k < i }) = j - 1
    IN  [j \in 1..Cardinality(keep) |-> lines[nth(j)]]

\* C16: RemoveFromPath(entry) and RemoveEnvVar(entry) delete exactly the markered
\* block whose tag is the entry's directory (or variable name), that is the
\* marker line and the line after it, and leave every other line of the shell
\* configuration file unchanged, blocks of other directories or variables
\* included.
C16_RemoveExactBlock ==
    [][ (/\ envCall'.n = envCall.n + 1
         /\ goos = "linux"
         /\ envCall'.op \in {"RemoveFromPath", "RemoveEnvVar"}) =>
            LET e == envCall'.arg[1]
                marker == IF envCall'.op = "RemoveFromPath"
                          THEN PathMarker(e.Value) ELSE EnvMarker(e.Name)
            IN  \A f \in RcFiles :
                    rc'[f] = IF f = e.File THEN WithoutBlock(rc[f], marker)
                             ELSE rc[f] ]_vars

\* a block was removed from a file that holds the user's own line and still
\* holds the block of another directory or variable
C16_Witness ==
    /\ pc = "env"
    /\ goos = "linux"
    /\ envCall.op \in {"RemoveFromPath", "RemoveEnvVar"}
    /\ LET e == envCall.arg[1]
           marker == IF envCall.op = "RemoveFromPath"
                     THEN PathMarker(e.Value) ELSE EnvMarker(e.Name)
       IN  /\ ~FileContains(rc[e.File], marker)
           /\ FileContains(rc[e.File], << MarkerTag >>)
           /\ \E i \in DOMAIN rc[e.File] : rc[e.File][i] = << "alias ll=ls" >>

\* C11: no install performed by ExecutePlan deletes or replaces the contents of a
\* directory that belongs to an installation already recorded in the ledger.
C11_NoRecordedDirReplaced ==
    \A i \in DOMAIN trace :
        (/\ inst # NoInstall
         /\ trace[i].step = "extract"
         /\ trace[i].ok
         /\ trace[i].of = << "replaced" >>) =>
            \A r \in Range(Load(ledgerFile).Installations) : r.Path # inst.targetDir

\* the record ExecutePlan appended for the k-th result of the running setup, and
\* the plan entry of that runtime
RecordOf(k) == st.Installations[Len(st.Installations) - Len(results) + k]

EntryOf(k) == CHOOSE e \in Range(rplan) : e.Name = results[k].Runtime

\* C12: for a plan entry with action upgrade whose detected version is v at path
\* p, the appended record has Action = upgrade, PreviousVersion = v,
\* PreviousPath = p and Path = base/<runtime>/<resolvedVersion>, a directory
\* created alongside the old installation, which it does not contain.
C12_UpgradeAlongside ==
    \A k \in DOMAIN results :
        EntryOf(k).Action = ActionUpgrade =>
            /\ RecordOf(k).Action = ActionUpgrade
            /\ RecordOf(k).PreviousVersion = EntryOf(k).InstalledVersion
            /\ RecordOf(k).PreviousPath = EntryOf(k).InstalledPath
            /\ RecordOf(k).Path = TargetDir(EntryOf(k).Name, RecordOf(k).Version)
            /\ RecordOf(k).Path \in disk
            /\ ~HasPrefix(RecordOf(k).PreviousPath, RecordOf(k).Path)

MutationFailed == \E i \in DOMAIN trace :
                      trace[i].step \in {"path", "env"} /\ ~trace[i].ok

C21_NeedsActionIffAllSkip ==
    planPc = "built" =>
        /\ (~NeedsAction(plan)) <=> (\A i \in DOMAIN plan : plan[i].Action = ActionSkip)
        /\ (~NeedsAction(plan)) <=>
               (\A k \in DOMAIN manifestRuntimes :
                   LET dn == runtimeDetectNames(k)
                   IN  /\ dn \in DOMAIN detected
                       /\ detected[dn].Installed
                       /\ versionSatisfies(detected[dn].Version, manifestRuntimes[k])
                              = [sat |-> TRUE, err |-> FALSE])
        /\ plan = << >> => ~NeedsAction(plan)

\* a plan of two entries, one satisfied by a comparison of versions and one by
\* "latest", for which NeedsAction() is false
C21_Witness ==
    /\ planPc = "built"
    /\ Len(plan) = 2
    /\ \E i \in DOMAIN plan : plan[i].RequiredVersion # Latest
    /\ \A i \in DOMAIN plan : plan[i].Action = ActionSkip
    /\ ~NeedsAction(plan)

YesEntry(e) ==
    \/ Len(e) >= 1 /\ e[1] = "typed" /\ Accepts(Tail(e))
    \/ Len(e) = 2 /\ e[1] = "key" /\ e[2] \in {"y", "Y"}

NoEntry(e) ==
    \/ Len(e) >= 1 /\ e[1] = "typed" /\ ~Accepts(Tail(e))
    \/ Len(e) = 2 /\ e[1] = "key" /\ e[2] \notin {"y", "Y"}

AnsweredYes(o) == \E i \in 2..Len(o) : o[i - 1] = << "proceed?" >> /\ YesEntry(o[i])

Declined(o) == \E i \in 2..Len(o) : o[i - 1] = << "proceed?" >> /\ NoEntry(o[i])

\* the run has not called the ledger, an installer or a package command
NothingStarted ==
    /\ idx = 0 /\ st = NewState
    /\ trace = << >> /\ ipc = "idle" /\ inst = NoInstall
    /\ results = << >> /\ cmdsRun = << >>
    /\ pc \in {"cmd", "confirm", "tui-summary", "tui-confirm", "tui-end", "exit0"}

\* C23: in the plain-text command and in the terminal interface the prompt is
\* shown only while nothing has started; the installation starts only when
\* the user answered yes at the prompt or --yes skipped it; and once the user
\* has declined, the run takes no further step: no installer step, no package
\* command and no write of the ledger, disk or shell files.
C23_ConfirmBeforeInstall ==
    [][/\ (\E i \in (Len(out) + 1)..Len(out') : out'[i] = << "proceed?" >>)
              => NothingStarted
       /\ (NothingStarted /\ ~NothingStarted') => (opts.yes \/ AnsweredYes(out'))
       /\ Declined(out') =>
              /\ NothingStarted /\ NothingStarted' /\ pc' = "exit0"
              /\ UNCHANGED << ledgerFile, disk, rc, userEnv >>
       /\ ~Declined(out)]_vars

\* the user declined a plan that needs action and the command has returned
C23_Witness ==
    /\ Declined(out)
    /\ ~opts.yes
    /\ NeedsAction(rplan)
    /\ pc = "exit0"
    /\ NothingStarted

\* the server has handled "cancel" for the plan it broadcast last
CancelledRun(b) ==
    \E i \in DOMAIN b :
        /\ b[i].message = "cancelled"
        /\ \A j \in (i + 1)..Len(b) : b[j].type # "plan"

\* C24: once the server has handled "cancel", no runInstallation goroutine
\* enters InstallSingleRuntime for the plan the user was shown, and no
\* complete event with success=true is broadcast for that run.
C24_CancelAborts ==
    [][CancelledRun(broadcasts) =>
          /\ \A w \in DOMAIN workers' :
                workers'[w].pc = "installing" =>
                    w \in DOMAIN workers /\ workers[w].pc = "installing"
          /\ \A i \in (Len(broadcasts) + 1)..Len(broadcasts') :
                ~(broadcasts'[i].type = "complete" /\ broadcasts'[i].success)]_vars

\* the versions of the fetched index, without the site's prefix
Available == { TrimPrefix(rv.releases[i].Version, SitePrefix(rv.name)) :
               i \in DOMAIN rv.releases }

Satisfying ==
    { v \in Available :
        NewVersion(v).ok /\ Check(NewConstraint(rv.requirement), NewVersion(v).v) }

\* C25: when the requirement is a parseable range other than "latest" and
\* ResolveVersion returns without error, the returned version is the newest
\* available release that satisfies the requirement; ResolveVersion returns an
\* error only when the fetch failed or the index holds no release at all.
C25_ResolveNewestSatisfying ==
    rv.pc = "returned" =>
        /\ (~rv.err /\ rv.requirement # Latest /\ NewConstraint(rv.requirement).ok) =>
              /\ rv.ret \in Satisfying
              /\ \A v \in Satisfying : VLeq(NewVersion(v).v, NewVersion(rv.ret).v)
        /\ rv.err => (~rv.fetched \/ Available = {})

\* a step taken with a stub installer: its Install, and ExecutePlan's call of
\* its ResolveVersion
StubStep ==
    /\ ipc = "stub" =>
          /\ ipc' = "err"
          /\ UNCHANGED << disk, rc, userEnv, st, ledgerFile >>
    /\ (pc = "resolve" /\ rplan[idx].Name \in StubInstallers) =>
          /\ pc' = "returned"
          /\ execErr'
          /\ UNCHANGED << disk, rc, userEnv, st, ledgerFile, results >>
    /\ \A i \in DOMAIN st'.Installations :
          st'.Installations[i].Runtime \notin StubInstallers

\* C26: ResolveVersion and Install of ruby, php and dotnet return an error for
\* every input; ExecutePlan reaching such a runtime returns with an error and
\* changes no shell file, no environment variable, no directory and no ledger
\* record for it, and no ledger ever holds an installation of a stub.
C26_StubsFailCleanly == [][StubStep]_vars

C26_Witness ==
    /\ pc = "returned"
    /\ execErr
    /\ idx = 2
    /\ rplan[idx].Name \in StubInstallers
    /\ Len(results) = 1
    /\ trace = << Step("resolve", FALSE) >>

\* ExecutePlan returned because GetInstaller found no installer for the entry
NoInstallerAvailable ==
    /\ pc = "returned"
    /\ execErr
    /\ idx \in DOMAIN rplan
    /\ rplan[idx].Name \notin registry

\* C27: every runtime key of a manifest that Validate accepted has a
\* registered installer, and ExecutePlan on the plan built from it never
\* returns "no installer available".
C27_ValidatedKeysHaveInstallers ==
    /\ planPc \in {"loaded", "built"} => DOMAIN manifestRuntimes \subseteq registry
    /\ ~NoInstallerAvailable

\* the run is past its runtime installations: the plain-text command is at
\* its global installs, its package install or its post-setup commands, or
\* ExecutePlan has just returned without an error
AtPackages ==
    \/ pc \in {"global", "packages", "post"}
    \/ pc = "returned" /\ ~execErr

PackageStep ==
    AtPackages =>
        /\ UNCHANGED << disk, st, ledgerFile, rc, results >>
        /\ pc' \in {"global", "packages", "post", "exit0", "tui-end"}
        /\ << "error" >> \notin Range(out')
        /\ pc' = "exit0" => << "installation complete" >> \in Range(out')

\* C28: whatever the package install command, the global package installs
\* and the post-setup commands return, the step that runs them changes no
\* installation directory, no ledger record in memory or on disk and no shell
\* file, prints no error and does not exit with a failure; the plain-text
\* command ends having printed "Installation complete!", the terminal
\* interface on its final screen.
C28_PackageFailureIsWarning == [][PackageStep]_vars

C28_Witness ==
    /\ pc = "exit0"
    /\ Ran("global", FALSE) \in Range(cmdsRun)
    /\ Ran("install", FALSE) \in Range(cmdsRun)
    /\ Ran("post", FALSE) \in Range(cmdsRun)
    /\ Len(results) >= 1
    /\ disk # {}
    /\ Load(ledgerFile).Installations # << >>

\* C29: two invocations of BuildPlan with the same manifest and the same
\* detection results return the same plan, entry for entry in the same order.
C29_BuildPlanDeterministic == planPc = "rebuilt" => rplan = plan

\* the tool of a catalogue entry is on the search path, under its binary name
\* or under the name detectRuntime falls back to
OnPath(c, p) == p.look \/ (c.Binary \in {"python3", "pip3"} /\ p.alt)

\* the output carries one of the Windows Store alias messages
StubPattern(c, output) == isWindowsStub(output)

\* the output carries one of those messages, or it is dotnet saying that no
\* SDK is installed
StubOrNoSdk(c, output) ==
    isWindowsStub(output) \/ (c.Binary = "dotnet" /\ Contains(output, NoSdkMessage))

\* the results so far are, entry by entry, those of the catalogue, each
\* decided by the probes of its own tool, where NotInstalled(c, output) says
\* which failing probes are reported as not installed
ScanAsSpecified(NotInstalled(_, _)) ==
    /\ scan.pc \in {"scan", "done"}
    /\ scan.i = Len(scan.results) + 1
    /\ Len(scan.results) <= Len(checks)
    /\ scan.pc = "done" => Len(scan.results) = Len(checks)
    /\ \A j \in DOMAIN scan.results :
          LET c == checks[j]
              p == probes[j]
              r == scan.results[j]
          IN  /\ r.Name = c.Name
              /\ ~OnPath(c, p) => ~r.Installed
              /\ (OnPath(c, p) /\ p.err /\ NotInstalled(c, p.out)) => ~r.Installed
              /\ (OnPath(c, p) /\ p.err /\ ~NotInstalled(c, p.out)) =>
                    r.Installed /\ r.Version = InstalledVersionUnknown
              /\ (OnPath(c, p) /\ ~p.err) => r.Installed

Rank(ph) == CHOOSE i \in DOMAIN Phases : Phases[i] = ph

\* C31: the phases the terminal interface goes through are in that order;
\* install is entered at start with skip-confirm or by y/Y in confirm;
\* packages is entered when every non-skip runtime has reported installed, in
\* plan order; a runtime failure leads to complete with the error set and no
\* package, post-setup or configure command is run.
C31_PhasesForward ==
    tui # NoTui =>
    LET t == tui.trail
        names == actionRuntimes(tui.plan)
    IN  /\ tui.phase = t[Len(t)].phase
        /\ \A i \in 1..(Len(t) - 1) : Rank(t[i].phase) < Rank(t[i + 1].phase)
        /\ \A i \in DOMAIN t :
              /\ t[i].phase = "install" =>
                    \/ i = 1 /\ t[i].by = "new" /\ tui.skipConfirm
                    \/ i > 1 /\ t[i - 1].phase = "confirm" /\ t[i].by \in {"y", "Y"}
              /\ (t[i].phase = "packages" /\ names # << >>) =>
                    /\ t[i].by = "runtimeInstalledMsg"
                    /\ tui.installResults = names
              /\ t[i].phase = "packages" => names # << >>
        /\ tui.installResults = SubSeq(names, 1, Len(tui.installResults))
        /\ tui.finalErr =>
              /\ tui.phase = "complete"
              /\ t[Len(t)].by = "runtimeFailedMsg"
              /\ tui.ran = << >>
              /\ ~tui.packagesRunning
              /\ tui.writes = 0
              /\ \A i \in DOMAIN t : t[i].phase \notin {"packages", "configure"}

C31_Witness ==
    /\ tui # NoTui
    /\ tui.finalErr
    /\ Len(tui.installResults) = 1
    /\ Len(tui.trail) = 4

\* no two records of the installations have the same runtime and version
NoDuplicates(installations) ==
    \A i, j \in DOMAIN installations :
        (/\ installations[i].Runtime = installations[j].Runtime
         /\ installations[i].Version = installations[j].Version) => i = j

\* C32: neither the ledger in memory nor the persisted ledger ever holds two
\* Installation records with the same runtime and version.
C32_NoDuplicateInstallations ==
    /\ NoDuplicates(st.Installations)
    /\ NoDuplicates(Load(ledgerFile).Installations)

\* the records of s that another (runtime, version) than the one undone owns
OtherInstallations(s, runtime, version) ==
    { s.Installations[i] : i \in { j \in DOMAIN s.Installations :
          ~(/\ s.Installations[j].Runtime = runtime
            /\ s.Installations[j].Version = version) } }

InsideAnother(value, s, runtime, version) ==
    \E o \in OtherInstallations(s, runtime, version) : Inside(value, o.Path)

\* C33: a successful UndoInstallation(r, v) leaves in the ledger every
\* Installation record of another (runtime, version) and every path or env
\* modification record whose value lies inside another recorded installation's
\* directory.
C33_UndoTouchesOnlyItsOwn ==
    (lastUndo # NoUndo /\ ~lastUndo.err) =>
        LET b == lastUndo.before
            r == lastUndo.runtime
            v == lastUndo.version
        IN  /\ \A o \in OtherInstallations(b, r, v) :
                  \E i \in DOMAIN st.Installations : st.Installations[i] = o
            /\ \A i \in DOMAIN b.PathModifications :
                  InsideAnother(b.PathModifications[i].Value, b, r, v) =>
                      \E j \in DOMAIN st.PathModifications :
                          st.PathModifications[j] = b.PathModifications[i]
            /\ \A i \in DOMAIN b.EnvModifications :
                  InsideAnother(b.EnvModifications[i].Value, b, r, v) =>
                      \E j \in DOMAIN st.EnvModifications :
                          st.EnvModifications[j] = b.EnvModifications[i]

\* the line is an export of the variable, whatever the value
IsExportOf(line, name) == HasPrefix(line, << "export ", name, "=\"" >>)

\* a shell that reads the file ends with name set to value: the last export of
\* name in the file is the one of value
Defines(content, name, value) ==
    \E i \in DOMAIN content :
        /\ content[i] = EnvExport(name, value)
        /\ \A j \in DOMAIN content : j > i => ~IsExportOf(content[j], name)

PersistentlyDefines(name, value) ==
    IF goos = "windows" THEN userEnv.Vars[name] = value
    ELSE \E i \in DOMAIN shellFiles : Defines(rc[shellFiles[i]], name, value)

\* C34: after SetEnvVar(name, value) returns without error the persistent user
\* environment defines name as value, whatever the shell files held before.
C34_SetEnvVarDefines ==
    (envCall.op = "SetEnvVar" /\ ~envCall.err) =>
        PersistentlyDefines(envCall.arg[1], envCall.arg[2])

\* the selected shell files into which the step wrote a block for dir
FilesWritten(before, after, dir) ==
    { i \in DOMAIN shellFiles :
        BlocksIn(after[shellFiles[i]], dir) > BlocksIn(before[shellFiles[i]], dir) }

\* C35: on a host with shell configuration files, AddToPath(dir) returns
\* (nil, nil) only if every selected file already holds a markered block for
\* dir; otherwise, when it returns without error, each selected file holds
\* exactly one markered block for dir, and RemoveFromPath of the returned record
\* removes every block that the call wrote.
C35_AddToPathRecordSuffices ==
    [][ (/\ envCall'.n = envCall.n + 1
         /\ envCall'.op = "AddToPath"
         /\ goos = "linux"
         /\ ~envCall'.err) =>
            LET dir == envCall'.arg
            IN  IF envCall'.ret = << >>
                THEN \A i \in DOMAIN shellFiles : BlocksIn(rc[shellFiles[i]], dir) = 1
                ELSE /\ \A i \in DOMAIN shellFiles :
                          BlocksIn(rc'[shellFiles[i]], dir) = 1
                     /\ LET undone_rc == removeFromPathUnix(rc', envCall'.ret[1])
                        IN  \A i \in FilesWritten(rc, rc', dir) :
                                BlocksIn(undone_rc[shellFiles[i]], dir) = 0 ]_vars

\* the uninstall command reversed the record on the live environment without error
ReversedPath(m) ==
    /\ \E k \in DOMAIN undone : undone[k].PathMod = << m >>
    /\ \A i \in DOMAIN out : out[i] # PathWarning(m)

ReversedEnv(m) ==
    /\ \E k \in DOMAIN undone : \E j \in DOMAIN undone[k].EnvMods :
          undone[k].EnvMods[j] = m
    /\ \A i \in DOMAIN out : out[i] # EnvWarning(m)

\* C36: when the uninstall command saves the ledger, a path-modification or
\* env-modification record of the persisted ledger is missing from the saved
\* ledger only if its reversal on the live environment succeeded.
C36_FailedReversalKeepsRecord ==
    [][ (pc = "usave" /\ pc' = "uninstalled") =>
            LET old == Load(ledgerFile)
                new == Load(ledgerFile')
            IN  /\ \A i \in DOMAIN old.PathModifications :
                      (\A j \in DOMAIN new.PathModifications :
                           new.PathModifications[j] # old.PathModifications[i])
                      => ReversedPath(old.PathModifications[i])
                /\ \A i \in DOMAIN old.EnvModifications :
                      (\A j \in DOMAIN new.EnvModifications :
                           new.EnvModifications[j] # old.EnvModifications[i])
                      => ReversedEnv(old.EnvModifications[i]) ]_vars

\* the records a reader finds in the ledger file; a torn file holds none
RecordsIn(file) == IF "torn" \in DOMAIN file THEN NewState ELSE Load(file)

Holds(records, r) == \E i \in DOMAIN records : records[i] = r

\* C37: ExecutePlan only appends to the ledger: no step of a run takes an
\* installation, path-modification or env-modification record out of the
\* persisted ledger file, whatever the outcome of the load, of the installs and
\* of the final save.
C37_PersistedLedgerOnlyGrows ==
    [][ LET old == RecordsIn(ledgerFile)
            new == RecordsIn(ledgerFile')
        IN  /\ \A i \in DOMAIN old.Installations :
                  Holds(new.Installations, old.Installations[i])
            /\ \A i \in DOMAIN old.PathModifications :
                  Holds(new.PathModifications, old.PathModifications[i])
            /\ \A i \in DOMAIN old.EnvModifications :
                  Holds(new.EnvModifications, old.EnvModifications[i]) ]_vars

\* no send channel was closed twice and nothing was sent on a closed channel
HubSafe ==
    /\ \A c \in Clients : hub.closes[c] <= 1
    /\ ~hub.sentOnClosed

\* C38: for any interleaving of registrations, unregistrations and broadcasts,
\* clients dropped for a full send buffer included, each client's send channel
\* is closed at most once and no message is sent on a closed channel; and the
\* hub loop always comes back to its select and takes every waiting broadcast,
\* whether or not a client's writer ever receives.
C38_HubSafeAndNeverStuck ==
    /\ []HubSafe
    /\ (hub.pc = "bcast") ~> (hub.pc = "select")
    /\ (hub.broadcast # << >>) ~> (hub.broadcast = << >>)

\* a client whose writer never received was dropped with a full buffer, and its
\* handler has unregistered since
C38_Witness ==
    \E c \in Clients :
        /\ hub.conn[c] = "closed"
        /\ hub.writer[c] = "running"
        /\ Len(hub.send[c]) = SendCap
        /\ hub.closes[c] = 1
        /\ hub.calls = MaxBroadcasts

\* the overall-complete events broadcast so far, the answers to "cancel" left
\* aside, and those with success=true
CompleteEvents ==
    { i \in DOMAIN broadcasts :
        broadcasts[i].type = "complete" /\ broadcasts[i].message # "cancelled" }

SuccessEvents == { i \in CompleteEvents : broadcasts[i].success }

\* a confirmed run that built a plan and whose loop over the plan has ended:
\* every non-skip runtime was reported install-complete
InstalledAll(w) == w.plan # << >> /\ w.pc \in {"packages", "configure", "done"}

\* C39: an overall-complete event with success=true is broadcast only after a
\* confirmed installation run that installed every non-skip runtime of its plan,
\* and there is at most one overall-complete event per confirmed run (the
\* events that answer a "cancel" message are not counted).
C39_CompleteOnlyAfterInstall ==
    /\ SuccessEvents # {} => \E w \in DOMAIN workers : InstalledAll(workers[w])
    /\ Cardinality(CompleteEvents) <= Len(workers)

====
